---- MODULE Spec2Model ----
(***************************************************************************)
(* Model of the job submission and poll client of the web front end        *)
(* (src/web/app.py): generate_animation, the handler of the Generate       *)
(* button, and poll_job_status, the stand-alone poll helper.               *)
(*                                                                         *)
(* A prompt is modelled as the sequence of the Unicode code points of its   *)
(* characters, since strip() and the regular expressions of               *)
(* validate_prompt tell characters apart by Unicode rules; a URL is a      *)
(* sequence of one-character strings (video_url.startswith compares        *)
(* characters as they are); text that is only copied or concatenated is a  *)
(* TLA+ string.  A JSON object                                             *)
(* is a function from its keys to their values; a key the object lacks is  *)
(* outside its DOMAIN.  The remote service is the environment: each HTTP   *)
(* call either raises requests.RequestException or yields a response with  *)
(* a status code and a JSON object as body.                                *)
(*                                                                         *)
(* The module also holds the animated algorithms of the scene templates    *)
(* (bubble_sort_animate, binary_search_animate, dijkstra_animate and       *)
(* SortingVisualization.sort) and validate_prompt of the prompt input      *)
(* component.  Each is run alone, on inputs drawn from bounded sets; its   *)
(* locals are the fields of one record, named as in the source, and list   *)
(* indices are zero-based as in the source.                                *)
(***************************************************************************)
EXTENDS Integers, Sequences, FiniteSets, TLC

VARIABLES
    fn,             \* which function of app.py this run calls
    \* ---- generate_animation(prompt, style, quality, use_nlu, progress)
    prompt, style, quality, use_nlu,
    pc,             \* position in generate_animation
    posted,         \* JSON bodies of the POSTs sent to /api/generate, in order
    post,           \* what the latest POST did: raised, or the response
    job_id,         \* data.get("jobId")
    max_attempts,   \* the attempt budget of the poll loop
    attempt,        \* the loop variable of `for attempt in range(max_attempts)`
    progress,       \* values passed to the progress callback, in order
    gets,           \* number of GETs sent to /api/jobs/{job_id}
    sleeps,         \* number of time.sleep calls
    slept,          \* total time slept
    last,           \* what the latest status query did
    lastMsg,        \* the message of the exception it raised, if it raised
    onlyPending,    \* every status query so far answered status "pending"
    terminalAt,     \* number of the first query answered completed or failed
    terminalStatus, \* and the status it answered
    terminalBody,   \* and the JSON object it answered with
    exit,           \* the return statement taken
    ret,            \* the returned tuple (video, code, message)
    \* ---- poll_job_status(job_id, max_attempts, delay)
    p_job_id, p_max_attempts, p_delay,
    p_pc, p_attempt, p_gets, p_sleeps, p_slept, p_last, p_lastMsg,
    p_raised,       \* number of status queries that raised
    p_onlyPending, p_terminalAt, p_terminalStatus, p_exit,
    p_ret,          \* the returned dict
    \* ---- the animated algorithms of the scene templates, and the prompt
    \* ---- check of the input component: one record of locals per function
    bubble,         \* bubble_sort_animate(bars, values)
    search,         \* binary_search_animate(boxes, values, target)
    dijkstra,       \* dijkstra_animate(nodes, positions, edges, ..., start, end)
    sorting,        \* SortingVisualization.sort()
    validation      \* validate_prompt(prompt)

gaVars == <<prompt, style, quality, use_nlu, pc, posted, post, job_id,
            max_attempts, attempt, progress, gets, sleeps, slept, last, lastMsg,
            onlyPending, terminalAt, terminalStatus, terminalBody, exit, ret>>
pjVars == <<p_job_id, p_max_attempts, p_delay, p_pc, p_attempt, p_gets,
            p_sleeps, p_slept, p_last, p_lastMsg, p_raised, p_onlyPending,
            p_terminalAt, p_terminalStatus, p_exit, p_ret>>
libVars == <<bubble, search, dijkstra, sorting, validation>>
vars == <<fn, gaVars, pjVars, libVars>>

-----------------------------------------------------------------------------
(* Bounds of the model *)

MaxPromptLen == 2
MaxPollAttempts == 4
MaxDelay == 2
\* the scenes: the longest list, the largest value in it, the largest weight
MaxListLen == 3
MaxValue == 3
MaxWeight == 2
\* validate_prompt: the longest run of white space around the prompt
MaxPad == 1

-----------------------------------------------------------------------------
(* Python values *)

\* Optional[str]: None, or a text
None == [some |-> FALSE, val |-> <<>>]
Some(v) == [some |-> TRUE, val |-> v]

\* dict.get(key, default)
Get(d, key, default) == IF key \in DOMAIN d THEN d[key] ELSE default

\* A prompt is the tuple of the Unicode code points of its characters: 32 is
\* the space, 97 the letter a, 383 the long s (U+017F).

\* the characters str.strip() removes, those str.isspace() is true of: tab,
\* line feed, vertical tab, form feed, carriage return, the separators
\* U+001C..U+001F, the space, U+0085, U+00A0 and the Unicode spaces
Whitespace ==
    {9, 10, 11, 12, 13, 28, 29, 30, 31, 32, 133, 160, 5760}
    \cup (8192..8202) \cup {8232, 8233, 8239, 8287, 12288}

RECURSIVE LStrip(_)
LStrip(s) ==
    IF s # <<>> /\ Head(s) \in Whitespace THEN LStrip(Tail(s)) ELSE s

RECURSIVE RStrip(_)
RStrip(s) ==
    IF s # <<>> /\ s[Len(s)] \in Whitespace
    THEN RStrip(SubSeq(s, 1, Len(s) - 1))
    ELSE s

\* str.strip()
Strip(s) == RStrip(LStrip(s))

\* str.startswith(prefix)
StartsWith(s, prefix) ==
    Len(s) >= Len(prefix) /\ SubSeq(s, 1, Len(prefix)) = prefix

-----------------------------------------------------------------------------
(* Configuration and inputs *)

API_BASE_URL == <<"http://localhost:3000">>

STYLES == {"3blue1brown", "minimalist", "playful", "corporate", "neon"}

QUALITY_OPTIONS == {"low", "medium", "high"}

\* the values the quality argument is drawn from: the radio's options and a
\* string that is none of them
Qualities == QUALITY_OPTIONS \cup {"ultra"}

\* the characters of the prompts: the space, the vertical tab and the letter a
PromptChars == {32, 11, 97}

RECURSIVE SeqsUpTo(_, _)
SeqsUpTo(S, n) ==
    IF n = 0 THEN {<<>>}
    ELSE LET shorter == SeqsUpTo(S, n - 1)
         IN  shorter \cup {Append(s, c) : s \in shorter, c \in S}

Prompts == SeqsUpTo(PromptChars, MaxPromptLen)

\* the value of the style dropdown when the page opens
DefaultStyle == "3blue1brown"

\* the prompts every style of the dropdown is tried on: those that are
\* rejected, the prompt "a", and "a" after a vertical tab
StyledPrompts ==
    {q \in Prompts : Strip(q) = <<>>} \cup {<<97>>, <<11, 97>>}

\* the prompts and styles generate_animation is called with: every prompt in
\* the default style, and every style on the prompts above
GaCalls ==
    {<<p, DefaultStyle>> : p \in Prompts}
    \cup {<<p, s>> : p \in StyledPrompts, s \in STYLES}

ExceptionMessages == {"Connection refused", "Read timed out"}

\* what requests.post / requests.get can do: raise, or return a response
Raised(m) == [kind |-> "exception", status_code |-> 0, body |-> <<>>, msg |-> m]
Response(code, body) ==
    [kind |-> "response", status_code |-> code, body |-> body, msg |-> ""]
NoCall == [kind |-> "none", status_code |-> 0, body |-> <<>>, msg |-> ""]
\* an exception that is no RequestException, raised while the call is made
Unexpected(m) == [kind |-> "error", status_code |-> 0, body |-> <<>>, msg |-> m]

UnexpectedMessages == {"Interrupted"}

\* what a status query did, as the service sees it
OutcomeClass(out) ==
    IF out.kind = "exception" THEN "exception"
    ELSE IF out.kind = "error" THEN "error"
    ELSE IF "status" \notin DOMAIN out.body THEN "missing"
    ELSE IF out.body["status"] \in {"completed", "failed", "pending"}
         THEN out.body["status"]
         ELSE "other"

IsTerminal(out) == OutcomeClass(out) \in {"completed", "failed"}

HTTP_ACCEPTED == 202

PostStatusCodes == {200, HTTP_ACCEPTED, 400, 500}

PostBodies ==
    { <<>>,
      [error |-> "Rate limit exceeded"],
      [jobId |-> "abc"],
      [jobId |-> ""],
      [jobId |-> "abc", error |-> "Rate limit exceeded"] }

PostOutcomes ==
    {Raised(m) : m \in ExceptionMessages}
    \cup {Unexpected(m) : m \in UnexpectedMessages}
    \cup {Response(c, b) : c \in PostStatusCodes, b \in PostBodies}

VideoUrls ==
    { <<"/", "v">>,
      <<"h", "t", "t", "p", ":", "/", "/", "c">> }

JobBodies ==
    { <<>>,
      [status |-> "pending"],
      [status |-> "processing"],
      [status |-> "failed"],
      [status |-> "failed", error |-> "Render failed"],
      [status |-> "failed", error |-> "Render failed", details |-> "LaTeX missing"],
      [status |-> "completed"],
      [status |-> "completed", code |-> "class S(Scene): pass"] }
    \cup { [status |-> "completed", video_url |-> v, code |-> "class S(Scene): pass",
            skill |-> "math"] : v \in VideoUrls }

GetOutcomes ==
    {Raised(m) : m \in ExceptionMessages}
    \cup {Response(200, b) : b \in JobBodies}

\* inside generate_animation every exception has a handler
GaGetOutcomes == GetOutcomes \cup {Unexpected(m) : m \in UnexpectedMessages}

-----------------------------------------------------------------------------
(* generate_animation *)

VALIDATION_MESSAGE == "Please enter a prompt describing what you want to animate."

\* the failure returns: (None, "", message)
Failure(message) == [video |-> None, code |-> "", msg |-> message]

\* max_attempts = 120 if quality == "high" else 60
HighQualityAttempts == 120
DefaultAttempts == 60
\* mutant: the comparison misses the radio's value
MaxAttemptsFor_WrongCase(q) == IF q = "High" THEN HighQualityAttempts ELSE DefaultAttempts

MaxAttemptsFor(q) == IF q = "high" THEN HighQualityAttempts ELSE DefaultAttempts

\* mutant: the prompt is sent as it was typed
RequestBody_Untrimmed(p, s, q, nlu) ==
    [concept |-> p, style |-> s, quality |-> q, useNLU |-> nlu]

\* the json= argument of requests.post
RequestBody(p, s, q, nlu) ==
    [concept |-> Strip(p), style |-> s, quality |-> q, useNLU |-> nlu]

\* progress values are kept exact, as <<numerator, denominator>>
ProgressSubmitting == <<0, 1>>
ProgressJobStarted == <<1, 10>>
ProgressComplete == <<1, 1>>
\* mutant: the remaining attempts are counted instead of the used ones
ProgressVal_Countdown(a, m) == <<m + 8 * (m - a), 10 * m>>

\* mutant: the attempts are counted from one
ProgressVal_OneBased(a, m) == <<m + 8 * (a + 1), 10 * m>>

\* progress_val = 0.1 + (0.8 * (attempt / max_attempts))
ProgressVal(a, m) == <<m + 8 * a, 10 * m>>

\* the status field of a poll result, "" standing for an absent field
StatusOf(result) == Get(result, "status", "")

\* the message of the success return
JoinParts(parts) ==
    LET RECURSIVE J(_)
        J(ps) == IF Len(ps) = 1 THEN ps[1]
                 ELSE ps[1] \o " | " \o J(Tail(ps))
    IN  J(parts)

\* mutant: the style entry is appended before the skill entry
StatusParts_StyleFirst(result) ==
    <<"Animation generated successfully!">>
    \o (IF Get(result, "style", "") # "" THEN <<"Style: " \o result["style"]>> ELSE <<>>)
    \o (IF Get(result, "skill", "") # "" THEN <<"Skill: " \o result["skill"]>> ELSE <<>>)
    \o (IF Get(result, "intent", "") # "" THEN <<"Intent: " \o result["intent"]>> ELSE <<>>)

StatusParts(result) ==
    <<"Animation generated successfully!">>
    \o (IF Get(result, "skill", "") # "" THEN <<"Skill: " \o result["skill"]>> ELSE <<>>)
    \o (IF Get(result, "style", "") # "" THEN <<"Style: " \o result["style"]>> ELSE <<>>)
    \o (IF Get(result, "intent", "") # "" THEN <<"Intent: " \o result["intent"]>> ELSE <<>>)

\* mutant: the test for an empty video_url is missing
QualifiedUrl_NoEmptyGuard(video_url) ==
    IF ~StartsWith(video_url, <<"h", "t", "t", "p">>)
    THEN API_BASE_URL \o video_url
    ELSE video_url

\* mutant: the base is put in front of every video_url that is not empty
QualifiedUrl_AlwaysPrefixed(video_url) ==
    IF video_url # <<>> THEN API_BASE_URL \o video_url ELSE video_url

\* video_url qualified against the API base
QualifiedUrl(video_url) ==
    IF video_url # <<>> /\ ~StartsWith(video_url, <<"h", "t", "t", "p">>)
    THEN API_BASE_URL \o video_url
    ELSE video_url

\* the return of the completed branch
Success(result) ==
    [video |-> Some(QualifiedUrl(Get(result, "video_url", <<>>))),
     code  |-> Get(result, "code", ""),
     msg   |-> JoinParts(StatusParts(result))]

\* mutant: the remote error is returned as it is, with no default
RemoteFailure_ErrorOnly(result) == Failure(Get(result, "error", ""))

\* mutant: the details are left out
RemoteFailure_NoDetails(result) ==
    Failure("Error: " \o Get(result, "error", "Generation failed"))

\* the return of the failed branch
RemoteFailure(result) ==
    Failure("Error: " \o Get(result, "error", "Generation failed")
            \o "\n" \o Get(result, "details", ""))

\* the return for a response whose status code is not 202
SubmitFailure(error_data) ==
    Failure("Error: " \o Get(error_data, "error", "Unknown error"))

\* mutant: the message leaves str(e) out
ConnectionFailure_NoMessage(m) == Failure("Connection error")

\* except requests.RequestException as e: return ...
ConnectionFailure(m) == Failure("Connection error: " \o m)

\* except Exception as e: return ...
UnexpectedFailure(m) == Failure("Unexpected error: " \o m)

\* mutant: the truth test without the strip()
PromptRejected_NoStrip(p) == p = <<>>

\* if not prompt.strip():
PromptRejected(p) == Strip(p) = <<>>

\* mutant: only error statuses count as a refusal
NotAccepted_OnlyErrors(status_code) == status_code >= 400

\* if response.status_code != 202:
NotAccepted(status_code) == status_code # HTTP_ACCEPTED

\* mutant: only a missing jobId is refused, an empty one is polled
SubmitExit_EmptyJobIdAccepted(out) ==
    IF out.kind = "exception" THEN "submit_exception"
    ELSE IF out.kind = "error" THEN "submit_error"
    ELSE IF out.status_code # HTTP_ACCEPTED THEN "not_accepted"
    ELSE IF "jobId" \notin DOMAIN out.body THEN "no_job_id"
    ELSE "accepted"

\* where generate_animation goes after the POST: every failure of the
\* submission is a return, an accepted job enters the poll loop
SubmitExit(out) ==
    IF out.kind = "exception" THEN "submit_exception"
    ELSE IF out.kind = "error" THEN "submit_error"
    ELSE IF NotAccepted(out.status_code) THEN "not_accepted"
    ELSE IF Get(out.body, "jobId", "") = "" THEN "no_job_id"
    ELSE "accepted"

\* mutant: a transport error makes the submission run again
AfterSubmit_Retry(how) ==
    IF how = "accepted" THEN "poll"
    ELSE IF how = "submit_exception" THEN "submit" ELSE "done"

\* the failure branches return, the accepted job goes on to the poll loop
AfterSubmit(how) == IF how = "accepted" THEN "poll" ELSE "done"

\* mutant: one iteration too many
LoopContinues_OffByOne(a, m) == a <= m

\* for attempt in range(max_attempts):
LoopContinues(a, m) == a < m

\* mutant: the completed branch is missing
PollBranch_CompletedIgnored(status) ==
    CASE status = "failed" -> "failed"
      [] OTHER             -> "sleep"

\* mutant: the failed branch is missing
PollBranch_FailedIgnored(status) ==
    CASE status = "completed" -> "completed"
      [] OTHER                -> "sleep"

\* mutant: a status the loop does not know ends it as a failure
PollBranch_UnknownFails(status) ==
    CASE status = "completed" -> "completed"
      [] status = "pending"   -> "sleep"
      [] OTHER                -> "failed"

\* what the poll loop does with a status: return it, or sleep and go on
PollBranch(status) ==
    CASE status = "completed" -> "completed"
      [] status = "failed"    -> "failed"
      [] OTHER                -> "sleep"

\* what generate_animation does with an exception raised inside its poll
\* loop: the loop has no handler, the function's own handler returns
GaOnPollException(a, m) == "return"

SLEEP_INTERVAL == 2

\* if not prompt.strip(): return ...; progress(0, ...)
Validate ==
    /\ pc = "start"
    /\ IF PromptRejected(prompt)
       THEN /\ ret' = Failure(VALIDATION_MESSAGE)
            /\ exit' = "validation"
            /\ pc' = "done"
            /\ UNCHANGED progress
       ELSE /\ progress' = Append(progress, ProgressSubmitting)
            /\ pc' = "submit"
            /\ UNCHANGED <<ret, exit>>
    /\ UNCHANGED <<prompt, style, quality, use_nlu, posted, post, job_id,
                   max_attempts, attempt, gets, sleeps, slept, last, lastMsg,
                   onlyPending, terminalAt, terminalStatus, terminalBody>>

\* requests.post(...) up to the start of the poll loop
Submit(out) ==
    /\ pc = "submit"
    /\ posted' = Append(posted, RequestBody(prompt, style, quality, use_nlu))
    /\ post' = out
    /\ LET how == SubmitExit(out) IN
       /\ pc' = AfterSubmit(how)
       /\ IF how = "accepted"
          THEN /\ job_id' = out.body["jobId"]
               /\ progress' = Append(progress, ProgressJobStarted)
               /\ max_attempts' = MaxAttemptsFor(quality)
               /\ UNCHANGED <<ret, exit>>
          ELSE /\ ret' = CASE how = "submit_exception" -> ConnectionFailure(out.msg)
                           [] how = "submit_error" -> UnexpectedFailure(out.msg)
                           [] how = "not_accepted" -> SubmitFailure(out.body)
                           [] OTHER -> Failure("Error: No job ID received")
               /\ exit' = how
               /\ UNCHANGED <<job_id, max_attempts, progress>>
    /\ UNCHANGED <<prompt, style, quality, use_nlu, attempt, gets, sleeps, slept,
                   last, lastMsg, onlyPending, terminalAt, terminalStatus, terminalBody>>

\* one iteration of the poll loop, up to its return or its time.sleep
Poll(out) ==
    /\ pc = "poll"
    /\ LoopContinues(attempt, max_attempts)
    /\ gets' = gets + 1
    /\ last' = OutcomeClass(out)
    /\ lastMsg' = out.msg
    /\ onlyPending' = (onlyPending /\ OutcomeClass(out) = "pending")
    /\ IF terminalAt = 0 /\ IsTerminal(out)
       THEN /\ terminalAt' = gets + 1
            /\ terminalStatus' = OutcomeClass(out)
            /\ terminalBody' = out.body
       ELSE UNCHANGED <<terminalAt, terminalStatus, terminalBody>>
    /\ LET branch == IF out.kind = "exception"
                     THEN GaOnPollException(attempt, max_attempts)
                     ELSE IF out.kind = "error" THEN "unexpected"
                     ELSE PollBranch(StatusOf(out.body))
           reported == Append(progress, ProgressVal(attempt, max_attempts))
       IN  CASE branch = "return" ->
                  /\ progress' = reported
                  /\ ret' = ConnectionFailure(out.msg)
                  /\ exit' = "poll_exception"
                  /\ pc' = "done"
             [] branch = "unexpected" ->
                  /\ progress' = reported
                  /\ ret' = UnexpectedFailure(out.msg)
                  /\ exit' = "poll_error"
                  /\ pc' = "done"
             [] branch = "completed" ->
                  /\ progress' = Append(reported, ProgressComplete)
                  /\ ret' = Success(out.body)
                  /\ exit' = "completed"
                  /\ pc' = "done"
             [] branch = "failed" ->
                  /\ progress' = reported
                  /\ ret' = RemoteFailure(out.body)
                  /\ exit' = "failed"
                  /\ pc' = "done"
             [] OTHER ->
                  /\ progress' = reported
                  /\ pc' = "sleep"
                  /\ UNCHANGED <<ret, exit>>
    /\ UNCHANGED <<prompt, style, quality, use_nlu, posted, post, job_id,
                   max_attempts, attempt, sleeps, slept>>

\* time.sleep(2) and the loop's next value of attempt
Sleep ==
    /\ pc = "sleep"
    /\ sleeps' = sleeps + 1
    /\ slept' = slept + SLEEP_INTERVAL
    /\ attempt' = attempt + 1
    /\ pc' = "poll"
    /\ UNCHANGED <<prompt, style, quality, use_nlu, posted, post, job_id,
                   max_attempts, progress, gets, last, lastMsg, onlyPending,
                   terminalAt, terminalStatus, terminalBody, exit, ret>>

\* the loop ran out: return None, "", "Error: Generation timed out"
TimeOut ==
    /\ pc = "poll"
    /\ ~LoopContinues(attempt, max_attempts)
    /\ ret' = Failure("Error: Generation timed out")
    /\ exit' = "timeout"
    /\ pc' = "done"
    /\ UNCHANGED <<prompt, style, quality, use_nlu, posted, post, job_id,
                   max_attempts, attempt, progress, gets, sleeps, slept, last,
                   lastMsg, onlyPending, terminalAt, terminalStatus, terminalBody>>

GaInit ==
    /\ \E call \in GaCalls : prompt = call[1] /\ style = call[2]
    /\ quality \in Qualities
    /\ use_nlu \in BOOLEAN
    /\ pc = "start"
    /\ posted = <<>>
    /\ post = NoCall
    /\ job_id = ""
    /\ max_attempts = 0
    /\ attempt = 0
    /\ progress = <<>>
    /\ gets = 0
    /\ sleeps = 0
    /\ slept = 0
    /\ last = "none"
    /\ lastMsg = ""
    /\ onlyPending = TRUE
    /\ terminalAt = 0
    /\ terminalStatus = ""
    /\ terminalBody = <<>>
    /\ exit = "none"
    /\ ret = Failure("")

GaNext ==
    \/ Validate
    \/ \E out \in PostOutcomes : Submit(out)
    \/ \E out \in GaGetOutcomes : Poll(out)
    \/ Sleep
    \/ TimeOut

-----------------------------------------------------------------------------
(* poll_job_status *)

\* for attempt in range(max_attempts):
PjLoopContinues(a, m) == a < m

\* mutant: the failed branch is missing from poll_job_status
PjBranch_FailedIgnored(status) ==
    CASE status = "completed" -> "completed"
      [] OTHER                -> "sleep"

\* if result.get("status") == "completed": return result
\* elif result.get("status") == "failed": return result
PjBranch(status) ==
    CASE status = "completed" -> "completed"
      [] status = "failed"    -> "failed"
      [] OTHER                -> "sleep"

\* mutant: the handler never returns
PjOnPollException_NeverReturns(a, m) == "sleep"

\* except requests.RequestException as e:
\*     if attempt == max_attempts - 1: return {...}
\*     time.sleep(delay)
PjOnPollException(a, m) == IF a = m - 1 THEN "return" ELSE "sleep"

\* mutant: an attempt whose query raised is run again
PjNextAttempt_RetryFree(a, l) == IF l = "exception" THEN a ELSE a + 1

\* the loop variable after an attempt whose query did l
PjNextAttempt(a, l) == a + 1

\* one iteration of the loop, up to its return or its time.sleep
PjPoll(out) ==
    /\ p_pc = "poll"
    /\ PjLoopContinues(p_attempt, p_max_attempts)
    /\ p_gets' = p_gets + 1
    /\ p_last' = OutcomeClass(out)
    /\ p_lastMsg' = out.msg
    /\ p_raised' = IF out.kind = "exception" THEN p_raised + 1 ELSE p_raised
    /\ p_onlyPending' = (p_onlyPending /\ OutcomeClass(out) = "pending")
    /\ IF p_terminalAt = 0 /\ IsTerminal(out)
       THEN p_terminalAt' = p_gets + 1 /\ p_terminalStatus' = OutcomeClass(out)
       ELSE UNCHANGED <<p_terminalAt, p_terminalStatus>>
    /\ LET branch == IF out.kind = "exception"
                     THEN PjOnPollException(p_attempt, p_max_attempts)
                     ELSE PjBranch(StatusOf(out.body))
       IN  CASE branch = "return" ->
                  /\ p_ret' = [status |-> "failed", error |-> out.msg]
                  /\ p_exit' = "poll_exception"
                  /\ p_pc' = "done"
             [] branch \in {"completed", "failed"} ->
                  /\ p_ret' = out.body
                  /\ p_exit' = branch
                  /\ p_pc' = "done"
             [] OTHER ->
                  /\ p_pc' = "sleep"
                  /\ UNCHANGED <<p_ret, p_exit>>
    /\ UNCHANGED <<p_job_id, p_max_attempts, p_delay, p_attempt, p_sleeps, p_slept>>

\* time.sleep(delay) and the loop's next value of attempt
PjSleep ==
    /\ p_pc = "sleep"
    /\ p_sleeps' = p_sleeps + 1
    /\ p_slept' = p_slept + p_delay
    /\ p_attempt' = PjNextAttempt(p_attempt, p_last)
    /\ p_pc' = "poll"
    /\ UNCHANGED <<p_job_id, p_max_attempts, p_delay, p_gets, p_last, p_lastMsg,
                   p_raised, p_onlyPending, p_terminalAt, p_terminalStatus, p_exit, p_ret>>

\* the loop ran out: return {"status": "failed", "error": "Generation timed out"}
PjTimeOut ==
    /\ p_pc = "poll"
    /\ ~PjLoopContinues(p_attempt, p_max_attempts)
    /\ p_ret' = [status |-> "failed", error |-> "Generation timed out"]
    /\ p_exit' = "timeout"
    /\ p_pc' = "done"
    /\ UNCHANGED <<p_job_id, p_max_attempts, p_delay, p_attempt, p_gets,
                   p_sleeps, p_slept, p_last, p_lastMsg, p_raised, p_onlyPending,
                   p_terminalAt, p_terminalStatus>>

JobIds == {"abc"}

PjInit ==
    /\ p_job_id \in JobIds
    /\ p_max_attempts \in 0..MaxPollAttempts
    /\ p_delay \in 0..MaxDelay
    /\ p_pc = "poll"
    /\ p_attempt = 0
    /\ p_gets = 0
    /\ p_sleeps = 0
    /\ p_slept = 0
    /\ p_last = "none"
    /\ p_lastMsg = ""
    /\ p_raised = 0
    /\ p_onlyPending = TRUE
    /\ p_terminalAt = 0
    /\ p_terminalStatus = ""
    /\ p_exit = "none"
    /\ p_ret = <<>>

PjNext ==
    \/ \E out \in GetOutcomes : PjPoll(out)
    \/ PjSleep
    \/ PjTimeOut

-----------------------------------------------------------------------------
(* A run calls one of the two functions; the other's variables stay put. *)

GaIdle ==
    /\ prompt = <<>> /\ style = "3blue1brown" /\ quality = "low" /\ use_nlu = TRUE
    /\ pc = "idle" /\ posted = <<>> /\ post = NoCall /\ job_id = ""
    /\ max_attempts = 0 /\ attempt = 0 /\ progress = <<>> /\ gets = 0
    /\ sleeps = 0 /\ slept = 0 /\ last = "none" /\ lastMsg = ""
    /\ onlyPending = TRUE /\ terminalAt = 0 /\ terminalStatus = ""
    /\ terminalBody = <<>>
    /\ exit = "none" /\ ret = Failure("")

PjIdle ==
    /\ p_job_id = "" /\ p_max_attempts = 0 /\ p_delay = 0 /\ p_pc = "idle"
    /\ p_attempt = 0 /\ p_gets = 0 /\ p_sleeps = 0 /\ p_slept = 0
    /\ p_last = "none" /\ p_lastMsg = "" /\ p_raised = 0
    /\ p_onlyPending = TRUE
    /\ p_terminalAt = 0 /\ p_terminalStatus = "" /\ p_exit = "none"
    /\ p_ret = <<>>

\* a function that is not called has no locals
Idle == [pc |-> "idle"]

LibIdle ==
    /\ bubble = Idle /\ search = Idle /\ dijkstra = Idle
    /\ sorting = Idle /\ validation = Idle

Init ==
    \/ fn = "generate_animation" /\ GaInit /\ PjIdle /\ LibIdle
    \/ fn = "poll_job_status" /\ PjInit /\ GaIdle /\ LibIdle

Next ==
    \/ GaNext /\ UNCHANGED <<fn, pjVars, libVars>>
    \/ PjNext /\ UNCHANGED <<fn, gaVars, libVars>>

Spec == Init /\ [][Next]_vars

\* the call runs on: every HTTP call has a timeout and every sleep ends
FairSpec == Spec /\ WF_vars(Next)

-----------------------------------------------------------------------------
(* generate_animation on one accepted request, against a service that       *)
(* answers with every shape of terminal job payload: the specification of   *)
(* the properties of the result translation.                                *)

\* the object with the keys of `keys` only
Restrict(object, keys) == [k \in keys |-> object[k]]

PayloadVideoUrls ==
    { <<>>,
      <<"/", "v">>,
      <<"v", ".", "m", "p", "4">>,
      <<"h", "t", "t", "p", ":", "/", "/", "c">>,
      <<"h", "t", "t", "p", "s", ":", "/", "/", "c">>,
      <<"h", "t", "t", "p", "d", "/", "v">> }

FullCompleted ==
    [status |-> "completed", video_url |-> <<"/", "v">>,
     code |-> "class S(Scene): pass",
     skill |-> "math", style |-> "neon", intent |-> "explain"]

BlankMetadata == [FullCompleted EXCEPT !["skill"] = "", !["intent"] = ""]

FullFailed ==
    [status |-> "failed", error |-> "Render failed", details |-> "LaTeX missing"]

CompletedPayloads ==
    { Restrict(full, {"status", "video_url", "code"} \cup meta) :
        full \in {FullCompleted, BlankMetadata},
        meta \in SUBSET {"skill", "style", "intent"} }
    \cup { [status |-> "completed", video_url |-> v] : v \in PayloadVideoUrls }
    \cup { [status |-> "completed"] }

FailedPayloads ==
    { Restrict(FullFailed, {"status"} \cup given) :
        given \in SUBSET {"error", "details"} }

PayloadOutcomes ==
    { Response(200, b) :
        b \in CompletedPayloads \cup FailedPayloads \cup {[status |-> "pending"]} }

ResultInit ==
    /\ fn = "generate_animation"
    /\ GaInit
    /\ prompt = <<97>> /\ style = "neon" /\ use_nlu = TRUE
    /\ PjIdle
    /\ LibIdle

ResultNext ==
    \/ Validate /\ UNCHANGED <<fn, pjVars, libVars>>
    \/ Submit(Response(HTTP_ACCEPTED, [jobId |-> "abc"])) /\ UNCHANGED <<fn, pjVars, libVars>>
    \/ (\E out \in PayloadOutcomes : Poll(out)) /\ UNCHANGED <<fn, pjVars, libVars>>
    \/ Sleep /\ UNCHANGED <<fn, pjVars, libVars>>
    \/ TimeOut /\ UNCHANGED <<fn, pjVars, libVars>>

SpecResult == ResultInit /\ [][ResultNext]_vars

-----------------------------------------------------------------------------
(* The two poll loops side by side: generate_animation on an accepted job   *)
(* and poll_job_status with the same budget, against one service that       *)
(* answers every query of both with the same response and never raises.     *)

\* the responses of a service whose queries do not raise
AnsweredOutcomes == {Response(200, b) : b \in JobBodies}

LockstepInit ==
    /\ fn = "both"
    /\ GaInit
    /\ prompt = <<97>> /\ style = "neon" /\ use_nlu = TRUE
    /\ p_job_id \in JobIds
    /\ p_max_attempts = MaxAttemptsFor(quality)
    /\ p_delay \in 0..MaxDelay
    /\ p_pc = "poll" /\ p_attempt = 0 /\ p_gets = 0 /\ p_sleeps = 0
    /\ p_slept = 0 /\ p_last = "none" /\ p_lastMsg = "" /\ p_raised = 0
    /\ p_onlyPending = TRUE /\ p_terminalAt = 0 /\ p_terminalStatus = ""
    /\ p_exit = "none" /\ p_ret = <<>>
    /\ LibIdle

LockstepNext ==
    \/ Validate /\ UNCHANGED <<fn, pjVars, libVars>>
    \/ Submit(Response(HTTP_ACCEPTED, [jobId |-> "abc"]))
          /\ UNCHANGED <<fn, pjVars, libVars>>
    \/ (\E out \in AnsweredOutcomes : Poll(out) /\ PjPoll(out))
          /\ UNCHANGED <<fn, libVars>>
    \/ Sleep /\ PjSleep /\ UNCHANGED <<fn, libVars>>
    \/ TimeOut /\ PjTimeOut /\ UNCHANGED <<fn, libVars>>

SpecLockstep == LockstepInit /\ [][LockstepNext]_vars

-----------------------------------------------------------------------------
(* The scene templates: Python lists *)

\* list[k] for the zero-based index k
At(list, k) == list[k + 1]

\* list[a], list[b] = list[b], list[a], for the index pair <<a, b>>
Swapped(list, pair) ==
    [list EXCEPT ![pair[1] + 1] = list[pair[2] + 1],
                 ![pair[2] + 1] = list[pair[1] + 1]]

\* the lists of values the searching scene is run on
Lists == SeqsUpTo(1..MaxValue, MaxListLen)

\* what a step of one scene leaves alone: everything but its own locals
BubbleFrame == UNCHANGED <<fn, gaVars, pjVars, search, dijkstra, sorting, validation>>
SearchFrame == UNCHANGED <<fn, gaVars, pjVars, bubble, dijkstra, sorting, validation>>
DijkstraFrame == UNCHANGED <<fn, gaVars, pjVars, bubble, search, sorting, validation>>
SortingFrame == UNCHANGED <<fn, gaVars, pjVars, bubble, search, dijkstra, validation>>

-----------------------------------------------------------------------------
(* BubbleSort.bubble_sort_animate(bars, values) *)

BAR_COLORS == <<"BLUE", "TEAL", "GREEN", "YELLOW", "ORANGE", "RED", "PURPLE", "PINK">>

\* what max(values) raises on an empty list
ValueError == [raised |-> "ValueError: max() arg is an empty sequence"]

\* what val / max_val raises when max_val is 0
ZeroDivisionError == [raised |-> "ZeroDivisionError: division by zero"]

\* max(values) of a list that is not empty
MaxOf(values) ==
    CHOOSE v \in {values[k] : k \in 1..Len(values)} :
        \A k \in 1..Len(values) : values[k] <= v

\* the lists create_bars makes bars of: they hold a value, and their largest
\* value is not 0
Scalable(values) == values # <<>> /\ MaxOf(values) # 0

\* the lists of values the bars of the sorting scenes are made of
BarLists == {values \in SeqsUpTo(0..MaxValue, MaxListLen) : Scalable(values)}

\* create_bars(values): max_val = max(values) raises on an empty list and
\* the first height = val / max_val * 4 raises when max_val is 0; otherwise
\* one bar per value, labelled with it
CreateBars(values) ==
    IF values = <<>> THEN ValueError
    ELSE IF MaxOf(values) = 0 THEN ZeroDivisionError
    ELSE [k \in 1..Len(values) |->
            [label |-> values[k],
             color |-> BAR_COLORS[((k - 1) % Len(BAR_COLORS)) + 1]]]

\* the index pair of values[j], values[j + 1] = values[j + 1], values[j]
ValuesSwapAt(j) == <<j, j + 1>>

\* mutant: the bars are left where they are
BarsSwapAt_Nowhere(j) == <<j, j>>

\* the index pair of bars[j], bars[j + 1] = bars[j + 1], bars[j]
BarsSwapAt(j) == <<j, j + 1>>

\* bars[k][0].set_color(c) for every k of ks
Coloured(bars, ks, c) ==
    [k \in 1..Len(bars) |->
        IF (k - 1) \in ks THEN [bars[k] EXCEPT !.color = c] ELSE bars[k]]

\* bars comes from create_bars(values), which needs a value to scale by
BubbleInit ==
    \E values \in BarLists :
        bubble = [pc |-> "pass", input |-> values, values |-> values,
                  bars |-> CreateBars(values), n |-> Len(values),
                  i |-> 0, j |-> 0, swaps |-> 0,
                  valuesSwap |-> <<>>, barsSwap |-> <<>>]

\* for i in range(n): the pass text, and the inner loop starts
BubblePass ==
    /\ bubble.pc = "pass"
    /\ bubble.i < bubble.n
    /\ bubble' = [bubble EXCEPT !.pc = "compare", !.j = 0]
    /\ BubbleFrame

\* an inner iteration whose values[j] > values[j + 1]
BubbleSwap ==
    /\ bubble.pc = "compare"
    /\ bubble.j < bubble.n - bubble.i - 1
    /\ At(bubble.values, bubble.j) > At(bubble.values, bubble.j + 1)
    /\ LET j == bubble.j
       IN  bubble' = [bubble EXCEPT
                !.values = Swapped(bubble.values, ValuesSwapAt(j)),
                !.bars = Coloured(Swapped(bubble.bars, BarsSwapAt(j)),
                                  {j, j + 1}, "BLUE"),
                !.valuesSwap = ValuesSwapAt(j),
                !.barsSwap = BarsSwapAt(j),
                !.swaps = bubble.swaps + 1,
                !.j = j + 1]
    /\ BubbleFrame

\* an inner iteration of the else branch
BubbleNoSwap ==
    /\ bubble.pc = "compare"
    /\ bubble.j < bubble.n - bubble.i - 1
    /\ ~(At(bubble.values, bubble.j) > At(bubble.values, bubble.j + 1))
    /\ LET j == bubble.j
       IN  bubble' = [bubble EXCEPT
                !.bars = Coloured(bubble.bars, {j, j + 1}, "BLUE"),
                !.j = j + 1]
    /\ BubbleFrame

\* the inner loop is over: bars[n - i - 1] turns purple, the next pass
BubbleEndPass ==
    /\ bubble.pc = "compare"
    /\ ~(bubble.j < bubble.n - bubble.i - 1)
    /\ bubble' = [bubble EXCEPT
            !.bars = Coloured(bubble.bars, {bubble.n - bubble.i - 1}, "PURPLE"),
            !.i = bubble.i + 1,
            !.pc = "pass"]
    /\ BubbleFrame

\* the outer loop is over
BubbleReturn ==
    /\ bubble.pc = "pass"
    /\ ~(bubble.i < bubble.n)
    /\ bubble' = [bubble EXCEPT !.pc = "done"]
    /\ BubbleFrame

-----------------------------------------------------------------------------
(* SortingVisualization.sort() *)

\* create_bars(values): max_val = max(values) raises on an empty list and
\* the first height = (val / max_val) * 4 raises when max_val is 0; otherwise
\* bar.value = val, filled blue
CreateValueBars(values) ==
    IF values = <<>> THEN ValueError
    ELSE IF MaxOf(values) = 0 THEN ZeroDivisionError
    ELSE [k \in 1..Len(values) |-> [value |-> values[k], fill |-> "BLUE"]]

\* mutant: equal bars count as out of order
CompareResult_NonStrict(a, b) == a >= b

\* result = bar_i.value > bar_j.value
CompareResult(a, b) == a > b

\* set_fill(c) of the bars at the indices ks
Filled(bars, ks, c) ==
    [k \in 1..Len(bars) |->
        IF (k - 1) \in ks THEN [bars[k] EXCEPT !.fill = c] ELSE bars[k]]

\* self.bars comes from create_bars, which needs a value to scale by
SortingInit ==
    \E values \in BarLists :
        sorting = [pc |-> "outer", initial |-> values,
                   bars |-> CreateValueBars(values), n |-> Len(values),
                   comparisons |-> 0, swaps |-> 0, i |-> 0, j |-> 0]

\* for i in range(n): the inner loop starts
SortingOuter ==
    /\ sorting.pc = "outer"
    /\ sorting.i < sorting.n
    /\ sorting' = [sorting EXCEPT !.pc = "inner", !.j = 0]
    /\ SortingFrame

\* if self.compare(j, j + 1): self.swap(j, j + 1)
SortingCompareSwap ==
    /\ sorting.pc = "inner"
    /\ sorting.j < sorting.n - sorting.i - 1
    /\ CompareResult(At(sorting.bars, sorting.j).value,
                     At(sorting.bars, sorting.j + 1).value)
    /\ LET j == sorting.j
       IN  sorting' = [sorting EXCEPT
                !.comparisons = sorting.comparisons + 1,
                !.swaps = sorting.swaps + 1,
                !.bars = Swapped(Filled(sorting.bars, {j, j + 1}, "BLUE"),
                                 <<j, j + 1>>),
                !.j = j + 1]
    /\ SortingFrame

\* self.compare(j, j + 1) returned False
SortingCompareOnly ==
    /\ sorting.pc = "inner"
    /\ sorting.j < sorting.n - sorting.i - 1
    /\ ~CompareResult(At(sorting.bars, sorting.j).value,
                      At(sorting.bars, sorting.j + 1).value)
    /\ LET j == sorting.j
       IN  sorting' = [sorting EXCEPT
                !.comparisons = sorting.comparisons + 1,
                !.bars = Filled(sorting.bars, {j, j + 1}, "BLUE"),
                !.j = j + 1]
    /\ SortingFrame

\* self.mark_sorted([n - i - 1]) and the next i
SortingMarkSorted ==
    /\ sorting.pc = "inner"
    /\ ~(sorting.j < sorting.n - sorting.i - 1)
    /\ sorting' = [sorting EXCEPT
            !.bars = Filled(sorting.bars, {sorting.n - sorting.i - 1}, "GREEN"),
            !.i = sorting.i + 1,
            !.pc = "outer"]
    /\ SortingFrame

\* the outer loop is over
SortingReturn ==
    /\ sorting.pc = "outer"
    /\ ~(sorting.i < sorting.n)
    /\ sorting' = [sorting EXCEPT !.pc = "done"]
    /\ SortingFrame

-----------------------------------------------------------------------------
(* BinarySearch.binary_search_animate(boxes, values, target) *)

\* the arrays in ascending order
Ascending(list) == \A k \in 1..(Len(list) - 1) : list[k] <= list[k + 1]
SortedLists == {list \in Lists : Ascending(list)}

\* the targets: every value of the arrays, one below and one above
Targets == 0..(MaxValue + 1)

Min(a, b) == IF a <= b THEN a ELSE b
Max(a, b) == IF a >= b THEN a ELSE b

\* mid = (left + right) // 2
Mid(left, right) == (left + right) \div 2

\* mutant: the left pointer follows left past the last box
ClampLeft_Unclamped(left, n) == left

\* the box the left pointer moves to: boxes[min(left, len(boxes)-1)]
ClampLeft(left, n) == Min(left, n - 1)

\* the box the right pointer moves to: boxes[max(right, 0)]
ClampRight(right) == Max(right, 0)

\* boxes[i][0].set_color(c) for every i of ks
BoxesColoured(colors, ks, c) ==
    [k \in 1..Len(colors) |-> IF (k - 1) \in ks THEN c ELSE colors[k]]

\* the colours after the first lines of an iteration: the window in blue,
\* the rest in gray, boxes[mid] in yellow
WindowColoured(colors, left, right, mid) ==
    BoxesColoured(
        [k \in 1..Len(colors) |->
            IF left <= k - 1 /\ k - 1 <= right THEN "BLUE_C" ELSE "GRAY"],
        {mid}, "YELLOW")

\* a pointer is None or next to a box, <<>> or <<index of the box>>
SearchInit ==
    \E values \in SortedLists, target \in Targets :
        search = [pc |-> "setup", values |-> values, target |-> target,
                  n |-> Len(values), left |-> 0, right |-> 0, step |-> 0,
                  mid |-> 0, left_pointer |-> <<>>, right_pointer |-> <<>>,
                  mid_pointer |-> <<>>,
                  colors |-> [k \in 1..Len(values) |-> "WHITE"],
                  exit |-> "none"]

\* left, right = 0, len(values) - 1 and the two pointers next to
\* boxes[left] and boxes[right]; an empty group has no boxes[0]
SearchSetup ==
    /\ search.pc = "setup"
    /\ IF search.n = 0
       THEN search' = [search EXCEPT !.pc = "done", !.exit = "IndexError",
                                     !.right = -1]
       ELSE search' = [search EXCEPT !.pc = "loop",
                                     !.left = 0, !.right = search.n - 1,
                                     !.left_pointer = <<0>>,
                                     !.right_pointer = <<search.n - 1>>]
    /\ SearchFrame

\* an iteration whose values[mid] == target: "Found!" and return
SearchFound ==
    /\ search.pc = "loop"
    /\ search.left <= search.right
    /\ LET mid == Mid(search.left, search.right)
       IN  /\ At(search.values, mid) = search.target
           /\ search' = [search EXCEPT
                    !.step = search.step + 1,
                    !.mid = mid,
                    !.mid_pointer = <<mid>>,
                    !.colors = BoxesColoured(
                        WindowColoured(search.colors, search.left, search.right, mid),
                        {mid}, "GREEN"),
                    !.exit = "found",
                    !.pc = "done"]
    /\ SearchFrame

\* an iteration whose values[mid] < target: search right
SearchRight ==
    /\ search.pc = "loop"
    /\ search.left <= search.right
    /\ LET mid == Mid(search.left, search.right)
       IN  /\ At(search.values, mid) # search.target
           /\ At(search.values, mid) < search.target
           /\ search' = [search EXCEPT
                    !.step = search.step + 1,
                    !.mid = mid,
                    !.mid_pointer = <<mid>>,
                    !.colors = BoxesColoured(
                        WindowColoured(search.colors, search.left, search.right, mid),
                        search.left..mid, "GRAY"),
                    !.left = mid + 1,
                    !.left_pointer = <<ClampLeft(mid + 1, search.n)>>]
    /\ SearchFrame

\* an iteration of the else branch: search left
SearchLeft ==
    /\ search.pc = "loop"
    /\ search.left <= search.right
    /\ LET mid == Mid(search.left, search.right)
       IN  /\ At(search.values, mid) # search.target
           /\ ~(At(search.values, mid) < search.target)
           /\ search' = [search EXCEPT
                    !.step = search.step + 1,
                    !.mid = mid,
                    !.mid_pointer = <<mid>>,
                    !.colors = BoxesColoured(
                        WindowColoured(search.colors, search.left, search.right, mid),
                        mid..search.right, "GRAY"),
                    !.right = mid - 1,
                    !.right_pointer = <<ClampRight(mid - 1)>>]
    /\ SearchFrame

\* while left <= right is over: the function ends without "Found!"
SearchExhausted ==
    /\ search.pc = "loop"
    /\ ~(search.left <= search.right)
    /\ search' = [search EXCEPT !.pc = "done", !.exit = "exhausted"]
    /\ SearchFrame

-----------------------------------------------------------------------------
(* GraphAlgorithms.dijkstra_animate(nodes, positions, edges, edge_objects,  *)
(* start, end)                                                              *)

\* the keys of positions, in the order of the dict
NodeNames == <<"A", "B", "C">>
Nodes == {NodeNames[k] : k \in 1..Len(NodeNames)}

\* the keys the edges dict can have, in the order of the dict; an edge
\* of the undirected graph is stored under one of its two orientations
EdgeKeys == << <<"A", "B">>, <<"C", "A">>, <<"B", "C">> >>

\* the edges dicts: some of the keys, each with a weight; edges[k] is the
\* weight stored under EdgeKeys[k]
Graphs ==
    UNION { [present -> 0..MaxWeight] : present \in SUBSET (1..Len(EdgeKeys)) }

\* float('inf'): above every sum of weights along a path
Infinity == Len(NodeNames) * MaxWeight + 1

\* None, as the value of previous[node] and of neighbor
NoNode == ""

\* the order of str on the names
NameRank(name) == CHOOSE k \in 1..Len(NodeNames) : NodeNames[k] = name

\* the order of the (distance, name) tuples on the heap
TupleLeq(e, f) ==
    \/ e[1] < f[1]
    \/ e[1] = f[1] /\ NameRank(e[2]) <= NameRank(f[2])

\* the tuple heapq.heappop takes
HeapMin(pq) == CHOOSE e \in pq : \A f \in pq : TupleLeq(e, f)

\* mutant: the weight of the edge alone
NewDist_WeightOnly(current_dist, weight) == weight

\* new_dist = current_dist + weight
NewDist(current_dist, weight) == current_dist + weight

\* the neighbor an edge gives the current node, None if it has none
Neighbor(key, current) ==
    IF key[1] = current THEN key[2]
    ELSE IF key[2] = current THEN key[1]
    ELSE NoNode

\* the body of `for (u, v), weight in edges.items()` for the key EdgeKeys[k]
RelaxEdge(st, k, edges, current, current_dist, visited) ==
    LET neighbor == Neighbor(EdgeKeys[k], current)
        new_dist == NewDist(current_dist, edges[k])
    IN  IF k \in DOMAIN edges /\ neighbor # NoNode /\ neighbor \notin visited
           /\ new_dist < st.distances[neighbor]
        THEN [distances |-> [st.distances EXCEPT ![neighbor] = new_dist],
              previous  |-> [st.previous EXCEPT ![neighbor] = current],
              pq        |-> st.pq \cup {<<new_dist, neighbor>>},
              labels    |-> [st.labels EXCEPT ![neighbor] = new_dist]]
        ELSE st

\* the whole for loop, over the keys from k on
RECURSIVE RelaxAll(_, _, _, _, _, _)
RelaxAll(st, k, edges, current, current_dist, visited) ==
    IF k > Len(EdgeKeys) THEN st
    ELSE RelaxAll(RelaxEdge(st, k, edges, current, current_dist, visited),
                  k + 1, edges, current, current_dist, visited)

\* while current: path.append(current); current = previous[current]
RECURSIVE Chain(_, _, _)
Chain(previous, current, fuel) ==
    IF current = NoNode \/ fuel = 0 THEN <<>>
    ELSE <<current>> \o Chain(previous, previous[current], fuel - 1)

\* path.reverse()
Reversed(list) == [k \in 1..Len(list) |-> list[Len(list) + 1 - k]]

DijkstraInit ==
    \E edges \in Graphs, start \in Nodes, end \in Nodes :
        dijkstra = [pc |-> "setup", edges |-> edges, start |-> start,
                    end |-> end,
                    distances |-> [n \in Nodes |-> Infinity],
                    previous |-> [n \in Nodes |-> NoNode],
                    labels |-> [n \in Nodes |-> Infinity],
                    pq |-> {}, visited |-> {},
                    processed |-> [n \in Nodes |-> 0],
                    colors |-> [n \in Nodes |-> "WHITE"],
                    path |-> <<>>]

\* the lines before the main loop
DijkstraSetup ==
    /\ dijkstra.pc = "setup"
    /\ dijkstra' = [dijkstra EXCEPT
            !.distances = [n \in Nodes |-> IF n = dijkstra.start THEN 0 ELSE Infinity],
            !.labels = [n \in Nodes |-> IF n = dijkstra.start THEN 0 ELSE Infinity],
            !.pq = {<<0, dijkstra.start>>},
            !.colors = [dijkstra.colors EXCEPT ![dijkstra.start] = "GREEN"],
            !.pc = "loop"]
    /\ DijkstraFrame

\* an iteration that pops a visited node: continue
DijkstraSkip ==
    /\ dijkstra.pc = "loop"
    /\ dijkstra.pq # {}
    /\ LET top == HeapMin(dijkstra.pq)
       IN  /\ top[2] \in dijkstra.visited
           /\ dijkstra' = [dijkstra EXCEPT !.pq = dijkstra.pq \ {top}]
    /\ DijkstraFrame

\* an iteration that pops a node not yet visited and relaxes its edges
DijkstraProcess ==
    /\ dijkstra.pc = "loop"
    /\ dijkstra.pq # {}
    /\ LET top == HeapMin(dijkstra.pq)
           current_dist == top[1]
           current == top[2]
           visited == dijkstra.visited \cup {current}
           st == RelaxAll([distances |-> dijkstra.distances,
                           previous |-> dijkstra.previous,
                           pq |-> dijkstra.pq \ {top},
                           labels |-> dijkstra.labels],
                          1, dijkstra.edges, current, current_dist, visited)
       IN  /\ current \notin dijkstra.visited
           /\ dijkstra' = [dijkstra EXCEPT
                    !.visited = visited,
                    !.processed = [dijkstra.processed EXCEPT
                                       ![current] = dijkstra.processed[current] + 1],
                    !.distances = st.distances,
                    !.previous = st.previous,
                    !.labels = st.labels,
                    !.pq = st.pq,
                    !.colors = [dijkstra.colors EXCEPT ![current] = "BLUE"]]
    /\ DijkstraFrame

\* the heap is empty: the path is rebuilt from previous and shown
DijkstraShowPath ==
    /\ dijkstra.pc = "loop"
    /\ dijkstra.pq = {}
    /\ LET path == Reversed(Chain(dijkstra.previous, dijkstra.end, Len(NodeNames)))
       IN  dijkstra' = [dijkstra EXCEPT
                !.path = path,
                !.colors = [n \in Nodes |->
                               IF \E k \in 2..Len(path) : path[k] = n
                               THEN "GREEN" ELSE dijkstra.colors[n]],
                !.pc = "done"]
    /\ DijkstraFrame

-----------------------------------------------------------------------------
(* The scenes, one per run *)

ScenesInit ==
    /\ GaIdle /\ PjIdle /\ validation = Idle
    /\ \/ /\ fn = "bubble_sort_animate" /\ BubbleInit
          /\ search = Idle /\ dijkstra = Idle /\ sorting = Idle
       \/ /\ fn = "binary_search_animate" /\ SearchInit
          /\ bubble = Idle /\ dijkstra = Idle /\ sorting = Idle
       \/ /\ fn = "dijkstra_animate" /\ DijkstraInit
          /\ bubble = Idle /\ search = Idle /\ sorting = Idle
       \/ /\ fn = "sort" /\ SortingInit
          /\ bubble = Idle /\ search = Idle /\ dijkstra = Idle

ScenesNext ==
    \/ BubblePass
    \/ BubbleSwap
    \/ BubbleNoSwap
    \/ BubbleEndPass
    \/ BubbleReturn
    \/ SearchSetup
    \/ SearchFound
    \/ SearchRight
    \/ SearchLeft
    \/ SearchExhausted
    \/ DijkstraSetup
    \/ DijkstraSkip
    \/ DijkstraProcess
    \/ DijkstraShowPath
    \/ SortingOuter
    \/ SortingCompareSwap
    \/ SortingCompareOnly
    \/ SortingMarkSorted
    \/ SortingReturn

SpecScenes == ScenesInit /\ [][ScenesNext]_vars

\* a scene that is being rendered runs on: every animation ends
FairScenes == SpecScenes /\ WF_vars(ScenesNext)

-----------------------------------------------------------------------------
(* validate_prompt(prompt) of the prompt input component *)

MIN_LENGTH == 10
MAX_LENGTH == 2000

MSG_EMPTY == "Please enter a prompt describing what you want to animate."
MSG_TOO_SHORT ==
    "Please provide a more detailed description (at least 10 characters)."
MSG_TOO_LONG == "Prompt is too long. Please keep it under 2000 characters."
MSG_BLOCKED == "Invalid input detected. Please enter a valid animation prompt."

\* the characters re.IGNORECASE takes for the ASCII character c of a pattern:
\* c in both letter cases and the characters whose case folding is c, which
\* are U+0130 and U+0131 for i, U+212A for k and U+017F for s
IgnoreCase(c) ==
    {c}
    \cup (IF c \in 97..122 THEN {c - 32} ELSE {})
    \cup (IF c \in 65..90 THEN {c + 32} ELSE {})
    \cup (IF c \in {73, 105} THEN {304, 305} ELSE {})
    \cup (IF c \in {75, 107} THEN {8490} ELSE {})
    \cup (IF c \in {83, 115} THEN {383} ELSE {})

\* the ranges of code points \w matches in a str pattern: the alphanumeric
\* characters of Unicode 14.0 and the underscore
WordRanges ==
    { <<48, 57>>, <<65, 90>>, <<95, 95>>, <<97, 122>>, <<170, 170>>,
      <<178, 179>>, <<181, 181>>, <<185, 186>>, <<188, 190>>, <<192, 214>>,
      <<216, 246>>, <<248, 705>>, <<710, 721>>, <<736, 740>>, <<748, 748>>,
      <<750, 750>>, <<880, 884>>, <<886, 887>>, <<890, 893>>, <<895, 895>>,
      <<902, 902>>, <<904, 906>>, <<908, 908>>, <<910, 929>>, <<931, 1013>>,
      <<1015, 1153>>, <<1162, 1327>>, <<1329, 1366>>, <<1369, 1369>>,
      <<1376, 1416>>, <<1488, 1514>>, <<1519, 1522>>, <<1568, 1610>>,
      <<1632, 1641>>, <<1646, 1647>>, <<1649, 1747>>, <<1749, 1749>>,
      <<1765, 1766>>, <<1774, 1788>>, <<1791, 1791>>, <<1808, 1808>>,
      <<1810, 1839>>, <<1869, 1957>>, <<1969, 1969>>, <<1984, 2026>>,
      <<2036, 2037>>, <<2042, 2042>>, <<2048, 2069>>, <<2074, 2074>>,
      <<2084, 2084>>, <<2088, 2088>>, <<2112, 2136>>, <<2144, 2154>>,
      <<2160, 2183>>, <<2185, 2190>>, <<2208, 2249>>, <<2308, 2361>>,
      <<2365, 2365>>, <<2384, 2384>>, <<2392, 2401>>, <<2406, 2415>>,
      <<2417, 2432>>, <<2437, 2444>>, <<2447, 2448>>, <<2451, 2472>>,
      <<2474, 2480>>, <<2482, 2482>>, <<2486, 2489>>, <<2493, 2493>>,
      <<2510, 2510>>, <<2524, 2525>>, <<2527, 2529>>, <<2534, 2545>>,
      <<2548, 2553>>, <<2556, 2556>>, <<2565, 2570>>, <<2575, 2576>>,
      <<2579, 2600>>, <<2602, 2608>>, <<2610, 2611>>, <<2613, 2614>>,
      <<2616, 2617>>, <<2649, 2652>>, <<2654, 2654>>, <<2662, 2671>>,
      <<2674, 2676>>, <<2693, 2701>>, <<2703, 2705>>, <<2707, 2728>>,
      <<2730, 2736>>, <<2738, 2739>>, <<2741, 2745>>, <<2749, 2749>>,
      <<2768, 2768>>, <<2784, 2785>>, <<2790, 2799>>, <<2809, 2809>>,
      <<2821, 2828>>, <<2831, 2832>>, <<2835, 2856>>, <<2858, 2864>>,
      <<2866, 2867>>, <<2869, 2873>>, <<2877, 2877>>, <<2908, 2909>>,
      <<2911, 2913>>, <<2918, 2927>>, <<2929, 2935>>, <<2947, 2947>>,
      <<2949, 2954>>, <<2958, 2960>>, <<2962, 2965>>, <<2969, 2970>>,
      <<2972, 2972>>, <<2974, 2975>>, <<2979, 2980>>, <<2984, 2986>>,
      <<2990, 3001>>, <<3024, 3024>>, <<3046, 3058>>, <<3077, 3084>>,
      <<3086, 3088>>, <<3090, 3112>>, <<3114, 3129>>, <<3133, 3133>>,
      <<3160, 3162>>, <<3165, 3165>>, <<3168, 3169>>, <<3174, 3183>>,
      <<3192, 3198>>, <<3200, 3200>>, <<3205, 3212>>, <<3214, 3216>>,
      <<3218, 3240>>, <<3242, 3251>>, <<3253, 3257>>, <<3261, 3261>>,
      <<3293, 3294>>, <<3296, 3297>>, <<3302, 3311>>, <<3313, 3314>>,
      <<3332, 3340>>, <<3342, 3344>>, <<3346, 3386>>, <<3389, 3389>>,
      <<3406, 3406>>, <<3412, 3414>>, <<3416, 3425>>, <<3430, 3448>>,
      <<3450, 3455>>, <<3461, 3478>>, <<3482, 3505>>, <<3507, 3515>>,
      <<3517, 3517>>, <<3520, 3526>>, <<3558, 3567>>, <<3585, 3632>>,
      <<3634, 3635>>, <<3648, 3654>>, <<3664, 3673>>, <<3713, 3714>>,
      <<3716, 3716>>, <<3718, 3722>>, <<3724, 3747>>, <<3749, 3749>>,
      <<3751, 3760>>, <<3762, 3763>>, <<3773, 3773>>, <<3776, 3780>>,
      <<3782, 3782>>, <<3792, 3801>>, <<3804, 3807>>, <<3840, 3840>>,
      <<3872, 3891>>, <<3904, 3911>>, <<3913, 3948>>, <<3976, 3980>>,
      <<4096, 4138>>, <<4159, 4169>>, <<4176, 4181>>, <<4186, 4189>>,
      <<4193, 4193>>, <<4197, 4198>>, <<4206, 4208>>, <<4213, 4225>>,
      <<4238, 4238>>, <<4240, 4249>>, <<4256, 4293>>, <<4295, 4295>>,
      <<4301, 4301>>, <<4304, 4346>>, <<4348, 4680>>, <<4682, 4685>>,
      <<4688, 4694>>, <<4696, 4696>>, <<4698, 4701>>, <<4704, 4744>>,
      <<4746, 4749>>, <<4752, 4784>>, <<4786, 4789>>, <<4792, 4798>>,
      <<4800, 4800>>, <<4802, 4805>>, <<4808, 4822>>, <<4824, 4880>>,
      <<4882, 4885>>, <<4888, 4954>>, <<4969, 4988>>, <<4992, 5007>>,
      <<5024, 5109>>, <<5112, 5117>>, <<5121, 5740>>, <<5743, 5759>>,
      <<5761, 5786>>, <<5792, 5866>>, <<5870, 5880>>, <<5888, 5905>>,
      <<5919, 5937>>, <<5952, 5969>>, <<5984, 5996>>, <<5998, 6000>>,
      <<6016, 6067>>, <<6103, 6103>>, <<6108, 6108>>, <<6112, 6121>>,
      <<6128, 6137>>, <<6160, 6169>>, <<6176, 6264>>, <<6272, 6276>>,
      <<6279, 6312>>, <<6314, 6314>>, <<6320, 6389>>, <<6400, 6430>>,
      <<6470, 6509>>, <<6512, 6516>>, <<6528, 6571>>, <<6576, 6601>>,
      <<6608, 6618>>, <<6656, 6678>>, <<6688, 6740>>, <<6784, 6793>>,
      <<6800, 6809>>, <<6823, 6823>>, <<6917, 6963>>, <<6981, 6988>>,
      <<6992, 7001>>, <<7043, 7072>>, <<7086, 7141>>, <<7168, 7203>>,
      <<7232, 7241>>, <<7245, 7293>>, <<7296, 7304>>, <<7312, 7354>>,
      <<7357, 7359>>, <<7401, 7404>>, <<7406, 7411>>, <<7413, 7414>>,
      <<7418, 7418>>, <<7424, 7615>>, <<7680, 7957>>, <<7960, 7965>>,
      <<7968, 8005>>, <<8008, 8013>>, <<8016, 8023>>, <<8025, 8025>>,
      <<8027, 8027>>, <<8029, 8029>>, <<8031, 8061>>, <<8064, 8116>>,
      <<8118, 8124>>, <<8126, 8126>>, <<8130, 8132>>, <<8134, 8140>>,
      <<8144, 8147>>, <<8150, 8155>>, <<8160, 8172>>, <<8178, 8180>>,
      <<8182, 8188>>, <<8304, 8305>>, <<8308, 8313>>, <<8319, 8329>>,
      <<8336, 8348>>, <<8450, 8450>>, <<8455, 8455>>, <<8458, 8467>>,
      <<8469, 8469>>, <<8473, 8477>>, <<8484, 8484>>, <<8486, 8486>>,
      <<8488, 8488>>, <<8490, 8493>>, <<8495, 8505>>, <<8508, 8511>>,
      <<8517, 8521>>, <<8526, 8526>>, <<8528, 8585>>, <<9312, 9371>>,
      <<9450, 9471>>, <<10102, 10131>>, <<11264, 11492>>, <<11499, 11502>>,
      <<11506, 11507>>, <<11517, 11517>>, <<11520, 11557>>, <<11559, 11559>>,
      <<11565, 11565>>, <<11568, 11623>>, <<11631, 11631>>, <<11648, 11670>>,
      <<11680, 11686>>, <<11688, 11694>>, <<11696, 11702>>, <<11704, 11710>>,
      <<11712, 11718>>, <<11720, 11726>>, <<11728, 11734>>, <<11736, 11742>>,
      <<11823, 11823>>, <<12293, 12295>>, <<12321, 12329>>, <<12337, 12341>>,
      <<12344, 12348>>, <<12353, 12438>>, <<12445, 12447>>, <<12449, 12538>>,
      <<12540, 12543>>, <<12549, 12591>>, <<12593, 12686>>, <<12690, 12693>>,
      <<12704, 12735>>, <<12784, 12799>>, <<12832, 12841>>, <<12872, 12879>>,
      <<12881, 12895>>, <<12928, 12937>>, <<12977, 12991>>, <<13312, 19903>>,
      <<19968, 42124>>, <<42192, 42237>>, <<42240, 42508>>, <<42512, 42539>>,
      <<42560, 42606>>, <<42623, 42653>>, <<42656, 42735>>, <<42775, 42783>>,
      <<42786, 42888>>, <<42891, 42954>>, <<42960, 42961>>, <<42963, 42963>>,
      <<42965, 42969>>, <<42994, 43009>>, <<43011, 43013>>, <<43015, 43018>>,
      <<43020, 43042>>, <<43056, 43061>>, <<43072, 43123>>, <<43138, 43187>>,
      <<43216, 43225>>, <<43250, 43255>>, <<43259, 43259>>, <<43261, 43262>>,
      <<43264, 43301>>, <<43312, 43334>>, <<43360, 43388>>, <<43396, 43442>>,
      <<43471, 43481>>, <<43488, 43492>>, <<43494, 43518>>, <<43520, 43560>>,
      <<43584, 43586>>, <<43588, 43595>>, <<43600, 43609>>, <<43616, 43638>>,
      <<43642, 43642>>, <<43646, 43695>>, <<43697, 43697>>, <<43701, 43702>>,
      <<43705, 43709>>, <<43712, 43712>>, <<43714, 43714>>, <<43739, 43741>>,
      <<43744, 43754>>, <<43762, 43764>>, <<43777, 43782>>, <<43785, 43790>>,
      <<43793, 43798>>, <<43808, 43814>>, <<43816, 43822>>, <<43824, 43866>>,
      <<43868, 43881>>, <<43888, 44002>>, <<44016, 44025>>, <<44032, 55203>>,
      <<55216, 55238>>, <<55243, 55291>>, <<63744, 64109>>, <<64112, 64217>>,
      <<64256, 64262>>, <<64275, 64279>>, <<64285, 64285>>, <<64287, 64296>>,
      <<64298, 64310>>, <<64312, 64316>>, <<64318, 64318>>, <<64320, 64321>>,
      <<64323, 64324>>, <<64326, 64433>>, <<64467, 64829>>, <<64848, 64911>>,
      <<64914, 64967>>, <<65008, 65019>>, <<65136, 65140>>, <<65142, 65276>>,
      <<65296, 65305>>, <<65313, 65338>>, <<65345, 65370>>, <<65382, 65470>>,
      <<65474, 65479>>, <<65482, 65487>>, <<65490, 65495>>, <<65498, 65500>>,
      <<65536, 65547>>, <<65549, 65574>>, <<65576, 65594>>, <<65596, 65597>>,
      <<65599, 65613>>, <<65616, 65629>>, <<65664, 65786>>, <<65799, 65843>>,
      <<65856, 65912>>, <<65930, 65931>>, <<66176, 66204>>, <<66208, 66256>>,
      <<66273, 66299>>, <<66304, 66339>>, <<66349, 66378>>, <<66384, 66421>>,
      <<66432, 66461>>, <<66464, 66499>>, <<66504, 66511>>, <<66513, 66517>>,
      <<66560, 66717>>, <<66720, 66729>>, <<66736, 66771>>, <<66776, 66811>>,
      <<66816, 66855>>, <<66864, 66915>>, <<66928, 66938>>, <<66940, 66954>>,
      <<66956, 66962>>, <<66964, 66965>>, <<66967, 66977>>, <<66979, 66993>>,
      <<66995, 67001>>, <<67003, 67004>>, <<67072, 67382>>, <<67392, 67413>>,
      <<67424, 67431>>, <<67456, 67461>>, <<67463, 67504>>, <<67506, 67514>>,
      <<67584, 67589>>, <<67592, 67592>>, <<67594, 67637>>, <<67639, 67640>>,
      <<67644, 67644>>, <<67647, 67669>>, <<67672, 67702>>, <<67705, 67742>>,
      <<67751, 67759>>, <<67808, 67826>>, <<67828, 67829>>, <<67835, 67867>>,
      <<67872, 67897>>, <<67968, 68023>>, <<68028, 68047>>, <<68050, 68096>>,
      <<68112, 68115>>, <<68117, 68119>>, <<68121, 68149>>, <<68160, 68168>>,
      <<68192, 68222>>, <<68224, 68255>>, <<68288, 68295>>, <<68297, 68324>>,
      <<68331, 68335>>, <<68352, 68405>>, <<68416, 68437>>, <<68440, 68466>>,
      <<68472, 68497>>, <<68521, 68527>>, <<68608, 68680>>, <<68736, 68786>>,
      <<68800, 68850>>, <<68858, 68899>>, <<68912, 68921>>, <<69216, 69246>>,
      <<69248, 69289>>, <<69296, 69297>>, <<69376, 69415>>, <<69424, 69445>>,
      <<69457, 69460>>, <<69488, 69505>>, <<69552, 69579>>, <<69600, 69622>>,
      <<69635, 69687>>, <<69714, 69743>>, <<69745, 69746>>, <<69749, 69749>>,
      <<69763, 69807>>, <<69840, 69864>>, <<69872, 69881>>, <<69891, 69926>>,
      <<69942, 69951>>, <<69956, 69956>>, <<69959, 69959>>, <<69968, 70002>>,
      <<70006, 70006>>, <<70019, 70066>>, <<70081, 70084>>, <<70096, 70106>>,
      <<70108, 70108>>, <<70113, 70132>>, <<70144, 70161>>, <<70163, 70187>>,
      <<70272, 70278>>, <<70280, 70280>>, <<70282, 70285>>, <<70287, 70301>>,
      <<70303, 70312>>, <<70320, 70366>>, <<70384, 70393>>, <<70405, 70412>>,
      <<70415, 70416>>, <<70419, 70440>>, <<70442, 70448>>, <<70450, 70451>>,
      <<70453, 70457>>, <<70461, 70461>>, <<70480, 70480>>, <<70493, 70497>>,
      <<70656, 70708>>, <<70727, 70730>>, <<70736, 70745>>, <<70751, 70753>>,
      <<70784, 70831>>, <<70852, 70853>>, <<70855, 70855>>, <<70864, 70873>>,
      <<71040, 71086>>, <<71128, 71131>>, <<71168, 71215>>, <<71236, 71236>>,
      <<71248, 71257>>, <<71296, 71338>>, <<71352, 71352>>, <<71360, 71369>>,
      <<71424, 71450>>, <<71472, 71483>>, <<71488, 71494>>, <<71680, 71723>>,
      <<71840, 71922>>, <<71935, 71942>>, <<71945, 71945>>, <<71948, 71955>>,
      <<71957, 71958>>, <<71960, 71983>>, <<71999, 71999>>, <<72001, 72001>>,
      <<72016, 72025>>, <<72096, 72103>>, <<72106, 72144>>, <<72161, 72161>>,
      <<72163, 72163>>, <<72192, 72192>>, <<72203, 72242>>, <<72250, 72250>>,
      <<72272, 72272>>, <<72284, 72329>>, <<72349, 72349>>, <<72368, 72440>>,
      <<72704, 72712>>, <<72714, 72750>>, <<72768, 72768>>, <<72784, 72812>>,
      <<72818, 72847>>, <<72960, 72966>>, <<72968, 72969>>, <<72971, 73008>>,
      <<73030, 73030>>, <<73040, 73049>>, <<73056, 73061>>, <<73063, 73064>>,
      <<73066, 73097>>, <<73112, 73112>>, <<73120, 73129>>, <<73440, 73458>>,
      <<73648, 73648>>, <<73664, 73684>>, <<73728, 74649>>, <<74752, 74862>>,
      <<74880, 75075>>, <<77712, 77808>>, <<77824, 78894>>, <<82944, 83526>>,
      <<92160, 92728>>, <<92736, 92766>>, <<92768, 92777>>, <<92784, 92862>>,
      <<92864, 92873>>, <<92880, 92909>>, <<92928, 92975>>, <<92992, 92995>>,
      <<93008, 93017>>, <<93019, 93025>>, <<93027, 93047>>, <<93053, 93071>>,
      <<93760, 93846>>, <<93952, 94026>>, <<94032, 94032>>, <<94099, 94111>>,
      <<94176, 94177>>, <<94179, 94179>>, <<94208, 100343>>,
      <<100352, 101589>>, <<101632, 101640>>, <<110576, 110579>>,
      <<110581, 110587>>, <<110589, 110590>>, <<110592, 110882>>,
      <<110928, 110930>>, <<110948, 110951>>, <<110960, 111355>>,
      <<113664, 113770>>, <<113776, 113788>>, <<113792, 113800>>,
      <<113808, 113817>>, <<119520, 119539>>, <<119648, 119672>>,
      <<119808, 119892>>, <<119894, 119964>>, <<119966, 119967>>,
      <<119970, 119970>>, <<119973, 119974>>, <<119977, 119980>>,
      <<119982, 119993>>, <<119995, 119995>>, <<119997, 120003>>,
      <<120005, 120069>>, <<120071, 120074>>, <<120077, 120084>>,
      <<120086, 120092>>, <<120094, 120121>>, <<120123, 120126>>,
      <<120128, 120132>>, <<120134, 120134>>, <<120138, 120144>>,
      <<120146, 120485>>, <<120488, 120512>>, <<120514, 120538>>,
      <<120540, 120570>>, <<120572, 120596>>, <<120598, 120628>>,
      <<120630, 120654>>, <<120656, 120686>>, <<120688, 120712>>,
      <<120714, 120744>>, <<120746, 120770>>, <<120772, 120779>>,
      <<120782, 120831>>, <<122624, 122654>>, <<123136, 123180>>,
      <<123191, 123197>>, <<123200, 123209>>, <<123214, 123214>>,
      <<123536, 123565>>, <<123584, 123627>>, <<123632, 123641>>,
      <<124896, 124902>>, <<124904, 124907>>, <<124909, 124910>>,
      <<124912, 124926>>, <<124928, 125124>>, <<125127, 125135>>,
      <<125184, 125251>>, <<125259, 125259>>, <<125264, 125273>>,
      <<126065, 126123>>, <<126125, 126127>>, <<126129, 126132>>,
      <<126209, 126253>>, <<126255, 126269>>, <<126464, 126467>>,
      <<126469, 126495>>, <<126497, 126498>>, <<126500, 126500>>,
      <<126503, 126503>>, <<126505, 126514>>, <<126516, 126519>>,
      <<126521, 126521>>, <<126523, 126523>>, <<126530, 126530>>,
      <<126535, 126535>>, <<126537, 126537>>, <<126539, 126539>>,
      <<126541, 126543>>, <<126545, 126546>>, <<126548, 126548>>,
      <<126551, 126551>>, <<126553, 126553>>, <<126555, 126555>>,
      <<126557, 126557>>, <<126559, 126559>>, <<126561, 126562>>,
      <<126564, 126564>>, <<126567, 126570>>, <<126572, 126578>>,
      <<126580, 126583>>, <<126585, 126588>>, <<126590, 126590>>,
      <<126592, 126601>>, <<126603, 126619>>, <<126625, 126627>>,
      <<126629, 126633>>, <<126635, 126651>>, <<127232, 127244>>,
      <<130032, 130041>>, <<131072, 173791>>, <<173824, 177976>>,
      <<177984, 178205>>, <<178208, 183969>>, <<183984, 191456>>,
      <<194560, 195101>>, <<196608, 201546>> }

\* the characters \w matches
WordChars == UNION { r[1]..r[2] : r \in WordRanges }

\* the characters \s matches in a str pattern: the same as str.isspace()
RegexSpace == Whitespace

\* the literal of a pattern matches at position i, letter case aside
LiteralAt(p, i, literal) ==
    /\ i + Len(literal) - 1 <= Len(p)
    /\ \A k \in 1..Len(literal) : p[i + k - 1] \in IgnoreCase(literal[k])

\* r'<script'
ScriptTag == <<60, 115, 99, 114, 105, 112, 116>>
\* r'javascript:'
JavascriptScheme == <<106, 97, 118, 97, 115, 99, 114, 105, 112, 116, 58>>

\* r'on\w+\s*=' matches at position i: "on", word characters up to a, white
\* space up to b - 1, and "=" at b
HandlerAt(p, i) ==
    /\ LiteralAt(p, i, <<111, 110>>)
    /\ \E a \in (i + 2)..Len(p) :
          /\ \A k \in (i + 2)..a : p[k] \in WordChars
          /\ \E b \in (a + 1)..Len(p) :
                /\ \A k \in (a + 1)..(b - 1) : p[k] \in RegexSpace
                /\ p[b] = 61

\* some re.search(pattern, prompt, re.IGNORECASE) finds a match
Blocked(p) ==
    \E i \in 1..Len(p) :
        \/ LiteralAt(p, i, ScriptTag)
        \/ LiteralAt(p, i, JavascriptScheme)
        \/ HandlerAt(p, i)

\* mutant: the length before strip() is compared
TooShort_Untrimmed(p) == Len(p) < MIN_LENGTH

\* if len(prompt.strip()) < 10:
TooShort(p) == Len(Strip(p)) < MIN_LENGTH

\* if len(prompt) > 2000:
TooLong(p) == Len(p) > MAX_LENGTH

\* the returned (bool, str)
ValidatePrompt(p) ==
    IF p = <<>> \/ Strip(p) = <<>> THEN [valid |-> FALSE, msg |-> MSG_EMPTY]
    ELSE IF TooShort(p) THEN [valid |-> FALSE, msg |-> MSG_TOO_SHORT]
    ELSE IF TooLong(p) THEN [valid |-> FALSE, msg |-> MSG_TOO_LONG]
    ELSE IF Blocked(p) THEN [valid |-> FALSE, msg |-> MSG_BLOCKED]
    ELSE [valid |-> TRUE, msg |-> ""]

\* the prompts validate_prompt is run on: a text, which may hold a blocked
\* pattern or a near miss of one, after a run of letters of a length around
\* the two limits, with white space around it
PromptTexts ==
    {
      \* the empty text
      <<>>,
      \* x
      <<120>>,
      \* <script
      <<60, 115, 99, 114, 105, 112, 116>>,
      \* <SCRIPT
      <<60, 83, 67, 82, 73, 80, 84>>,
      \* <script with the long s and the dotted capital I
      <<60, 383, 99, 114, 304, 112, 116>>,
      \* <scrip
      <<60, 115, 99, 114, 105, 112>>,
      \* javascript:
      <<106, 97, 118, 97, 115, 99, 114, 105, 112, 116, 58>>,
      \* JavaScript:
      <<74, 97, 118, 97, 83, 99, 114, 105, 112, 116, 58>>,
      \* javascript: with the long s and the dotless i
      <<106, 97, 118, 97, 383, 99, 114, 305, 112, 116, 58>>,
      \* javascript
      <<106, 97, 118, 97, 115, 99, 114, 105, 112, 116>>,
      \* onclick=
      <<111, 110, 99, 108, 105, 99, 107, 61>>,
      \* ONLOAD =
      <<79, 78, 76, 79, 65, 68, 32, 61>>,
      \* on=
      <<111, 110, 61>>,
      \* on =
      <<111, 110, 32, 61>>,
      \* onx, line feed, =
      <<111, 110, 120, 10, 61>>,
      \* onx, vertical tab, =
      <<111, 110, 120, 11, 61>>,
      \* onx, no-break space, =
      <<111, 110, 120, 160, 61>>,
      \* onx, zero width space (no white space), =
      <<111, 110, 120, 8203, 61>>,
      \* on, e with acute accent, =
      <<111, 110, 233, 61>>,
      \* on, multiplication sign (no word character), =
      <<111, 110, 215, 61>>,
      \* on, Kelvin sign, =
      <<111, 110, 8490, 61>>,
      \* on-x=
      <<111, 110, 45, 120, 61>>,
      \* onx
      <<111, 110, 120>>,
      \* draw a circle
      <<100, 114, 97, 119, 32, 97, 32, 99, 105, 114, 99, 108, 101>> }

FillLengths ==
    {0, MIN_LENGTH - 2, MIN_LENGTH - 1, MIN_LENGTH,
     MAX_LENGTH - 1, MAX_LENGTH, MAX_LENGTH + 1}

\* k letters a
Fill(k) == [i \in 1..k |-> 97]

\* the white space around a prompt: the space, the vertical tab
PadChars == {32, 11}
Pads == SeqsUpTo(PadChars, MaxPad)

ValidationPrompts ==
    { l \o Fill(k) \o text \o r :
        l \in Pads, r \in Pads, k \in FillLengths, text \in PromptTexts }

PromptInit ==
    /\ fn = "validate_prompt"
    /\ GaIdle /\ PjIdle
    /\ bubble = Idle /\ search = Idle /\ dijkstra = Idle /\ sorting = Idle
    /\ \E p \in ValidationPrompts :
          validation = [pc |-> "call", prompt |-> p,
                        result |-> [valid |-> FALSE, msg |-> ""]]

\* the call of validate_prompt
ValidateCall ==
    /\ validation.pc = "call"
    /\ validation' = [validation EXCEPT
            !.result = ValidatePrompt(validation.prompt),
            !.pc = "done"]
    /\ UNCHANGED <<fn, gaVars, pjVars, bubble, search, dijkstra, sorting>>

PromptNext == ValidateCall

SpecPrompt == PromptInit /\ [][PromptNext]_vars

-----------------------------------------------------------------------------
(* Properties *)

\* the prompt is empty or consists of whitespace only
Blank(p) == \A i \in 1..Len(p) : p[i] \in Whitespace

\* the job was accepted: generate_animation has entered its poll loop
Polling == fn = "generate_animation" /\ job_id # ""

\* C1: when a status query answers completed on attempt k, the poll loop (of
\* generate_animation and of poll_job_status) ends at attempt k with the
\* success result: k queries were made, k - 1 sleeps, and nothing follows.
C1_CompletedEndsLoopAtK ==
    /\ terminalStatus = "completed" =>
          /\ pc = "done" /\ exit = "completed" /\ ret.video.some
          /\ terminalAt \in 1..max_attempts
          /\ gets = terminalAt /\ sleeps = terminalAt - 1
          /\ attempt = terminalAt - 1
    /\ p_terminalStatus = "completed" =>
          /\ p_pc = "done" /\ p_exit = "completed"
          /\ StatusOf(p_ret) = "completed"
          /\ p_terminalAt \in 1..p_max_attempts
          /\ p_gets = p_terminalAt /\ p_sleeps = p_terminalAt - 1
          /\ p_attempt = p_terminalAt - 1

C1_Witness ==
    /\ terminalStatus = "completed" /\ terminalAt = 3
    /\ pc = "done" /\ gets = 3

\* C2: when every status query answers pending, the loop makes exactly
\* max_attempts queries, one sleep of the fixed interval after each, and
\* returns the timeout failure.
C2_AllPendingTimesOut ==
    /\ (Polling /\ onlyPending) =>
          /\ pc = "poll" => sleeps = gets /\ attempt = gets
          /\ pc = "sleep" => sleeps = gets - 1
          /\ slept = 2 * sleeps
          /\ pc = "done" =>
                /\ exit = "timeout"
                /\ gets = max_attempts /\ sleeps = max_attempts
                /\ ret = [video |-> None, code |-> "",
                          msg |-> "Error: Generation timed out"]
    /\ (fn = "poll_job_status" /\ p_onlyPending) =>
          /\ p_pc = "poll" => p_sleeps = p_gets /\ p_attempt = p_gets
          /\ p_pc = "sleep" => p_sleeps = p_gets - 1
          /\ p_slept = p_delay * p_sleeps
          /\ p_pc = "done" =>
                /\ p_exit = "timeout"
                /\ p_gets = p_max_attempts /\ p_sleeps = p_max_attempts
                /\ p_ret = [status |-> "failed", error |-> "Generation timed out"]

C2_Witness ==
    /\ Polling /\ onlyPending /\ pc = "done" /\ exit = "timeout"
    /\ gets = 120

\* C3: in poll_job_status an exception raised by the status query of an
\* attempt before the last leaves the loop running (sleep, then the next
\* attempt); raised by the last attempt it ends the loop with a failed result
\* carrying the exception's message.
C3_PjExceptionOnlyFatalOnLastAttempt ==
    /\ (p_last = "exception" /\ p_gets < p_max_attempts) =>
          /\ p_pc \in {"sleep", "poll"} /\ p_exit = "none"
          /\ p_pc = "sleep" => p_sleeps = p_gets - 1
          /\ p_pc = "poll" => /\ p_sleeps = p_gets
                              /\ p_attempt = p_gets
                              /\ p_attempt < p_max_attempts
    /\ (p_last = "exception" /\ p_gets >= p_max_attempts) =>
          /\ p_pc = "done" /\ p_exit = "poll_exception"
          /\ p_gets = p_max_attempts
          /\ p_ret = [status |-> "failed", error |-> p_lastMsg]

C3_Witness ==
    /\ p_last = "exception" /\ p_gets = 3 /\ p_max_attempts = 3
    /\ p_exit = "poll_exception" /\ p_ret["error"] = "Read timed out"

\* C4: in the poll loop of generate_animation an exception raised by a status
\* query before the last attempt is swallowed and the next attempt is made;
\* only an exception on the last attempt is reported.
C4_GaExceptionOnlyFatalOnLastAttempt ==
    /\ (Polling /\ last = "exception" /\ gets < max_attempts) => pc # "done"
    /\ (Polling /\ exit = "poll_exception") => gets = max_attempts

\* C5: a prompt that is empty or whitespace only causes no POST and no GET
\* and returns (None, "", the validation message), whatever the style, the
\* quality and use_nlu.
C5_BlankPromptNoNetworkCall ==
    (fn = "generate_animation" /\ Blank(prompt)) =>
        /\ posted = <<>> /\ post = NoCall /\ gets = 0
        /\ pc \in {"start", "done"}
        /\ pc = "done" =>
              ret = [video |-> None, code |-> "",
                     msg |-> "Please enter a prompt describing what you want to animate."]

C5_Witness ==
    /\ prompt = <<32, 11>> /\ pc = "done" /\ exit = "validation"
    /\ style = "corporate" /\ quality = "high" /\ use_nlu = FALSE

\* C6: the attempt budget of generate_animation's poll loop is 120 for
\* quality "high" and 60 for every other quality.
C6_BudgetByQuality ==
    Polling =>
        /\ max_attempts = IF quality = "high" THEN 120 ELSE 60
        /\ gets <= max_attempts
        /\ exit = "timeout" => gets = IF quality = "high" THEN 120 ELSE 60

C6_Witness ==
    Polling /\ quality = "ultra" /\ exit = "timeout" /\ gets = 60

\* C7: when a status query answers failed on attempt k, the loop returns the
\* failure at once: k queries were made, k - 1 sleeps, nothing follows, and
\* the result is a failure.
C7_FailedEndsLoopAtK ==
    /\ terminalStatus = "failed" =>
          /\ pc = "done" /\ exit = "failed"
          /\ ret.video = None /\ ret.code = ""
          /\ terminalAt \in 1..max_attempts
          /\ gets = terminalAt /\ sleeps = terminalAt - 1
    /\ p_terminalStatus = "failed" =>
          /\ p_pc = "done" /\ p_exit = "failed"
          /\ StatusOf(p_ret) = "failed"
          /\ p_terminalAt \in 1..p_max_attempts
          /\ p_gets = p_terminalAt /\ p_sleeps = p_terminalAt - 1

C7_Witness ==
    /\ terminalStatus = "failed" /\ terminalAt = 2 /\ pc = "done"
    /\ ret.msg = "Error: Render failed\nLaTeX missing"

\* C8: once polling has started generate_animation returns only because a
\* poll answered completed, a poll answered failed, or the budget ran out.
C8_OnlyThreeExits ==
    (Polling /\ pc = "done") => exit \in {"completed", "failed", "timeout"}

\* C9: for a prompt that is not blank generate_animation sends exactly one
\* POST, and never a second one, whatever the first one did.
C9_ExactlyOnePost ==
    fn = "generate_animation" =>
        /\ Len(posted) <= 1
        /\ post # NoCall => Len(posted) = 1 /\ pc # "submit"
        /\ (~Blank(prompt) /\ pc \notin {"start", "submit"}) => Len(posted) = 1

C9_Witness ==
    /\ ~Blank(prompt) /\ pc = "done" /\ exit = "submit_exception"
    /\ Len(posted) = 1

\* C10: a submission response whose status is not 202 ends the call with
\* "Error: " followed by the body's error field, or by "Unknown error" when
\* the body has none, with no video, no code and no status query.
C10_NotAcceptedIsSubmissionFailure ==
    (post.kind = "response" /\ post.status_code # 202) =>
        /\ pc = "done" /\ gets = 0 /\ job_id = ""
        /\ ret.video = None /\ ret.code = ""
        /\ ret.msg = "Error: " \o (IF "error" \in DOMAIN post.body
                                   THEN post.body["error"]
                                   ELSE "Unknown error")

C10_Witness ==
    /\ post.kind = "response" /\ post.status_code = 200
    /\ "jobId" \in DOMAIN post.body /\ "error" \notin DOMAIN post.body
    /\ pc = "done" /\ ret.msg = "Error: Unknown error"

\* C11: a 202 response without a job identifier (jobId missing or empty)
\* ends the call with the fixed message "Error: No job ID received" and no
\* status query.
C11_NoJobIdIsFailure ==
    (post.kind = "response" /\ post.status_code = 202
       /\ ("jobId" \notin DOMAIN post.body \/ post.body["jobId"] = "")) =>
        /\ pc = "done" /\ exit = "no_job_id" /\ gets = 0
        /\ ret = [video |-> None, code |-> "", msg |-> "Error: No job ID received"]

C11_Witness ==
    /\ post.kind = "response" /\ post.status_code = 202
    /\ "jobId" \in DOMAIN post.body /\ post.body["jobId"] = ""
    /\ pc = "done" /\ ret.msg = "Error: No job ID received"

\* the video_url of the payload of the completed job, empty when it has none
CompletedUrl == Get(terminalBody, "video_url", <<>>)

HasHttpScheme(url) ==
    \/ StartsWith(url, <<"h", "t", "t", "p", ":", "/", "/">>)
    \/ StartsWith(url, <<"h", "t", "t", "p", "s", ":", "/", "/">>)

\* C12 as stated: on a completed job a returned video_url that does not
\* start with an HTTP scheme comes back prefixed with the API base URL, and
\* one that does comes back unchanged.
C12_AsStated ==
    (terminalStatus = "completed" /\ "video_url" \in DOMAIN terminalBody) =>
        IF HasHttpScheme(CompletedUrl)
        THEN ret.video = Some(CompletedUrl)
        ELSE ret.video = Some(<<"http://localhost:3000">> \o CompletedUrl)

\* C12 as amended: on a completed job a returned video_url that is not empty
\* and does not start with the text "http" comes back prefixed with the API
\* base URL; one that starts with "http" comes back unchanged.
C12_NonEmptyUrlQualified ==
    (terminalStatus = "completed" /\ "video_url" \in DOMAIN terminalBody) =>
        /\ (CompletedUrl # <<>> /\ ~StartsWith(CompletedUrl, <<"h", "t", "t", "p">>)) =>
              ret.video = Some(<<"http://localhost:3000">> \o CompletedUrl)
        /\ StartsWith(CompletedUrl, <<"h", "t", "t", "p">>) =>
              ret.video = Some(CompletedUrl)

C12_Witness ==
    /\ terminalStatus = "completed"
    /\ CompletedUrl = <<"h", "t", "t", "p", "s", ":", "/", "/", "c">>
    /\ ret.video = Some(CompletedUrl)

\* p <= q for progress values <<numerator, denominator>>
Leq(p, q) == p[1] * q[2] <= q[1] * p[2]

\* C14: within one call the reported progress values never decrease, and
\* the value 1.0 is reported only after a poll has answered a terminal
\* status: not while the job is pending, not on timeout, not before the job
\* is accepted.
C14_ProgressMonotone ==
    fn = "generate_animation" =>
        /\ \A i \in 1..(Len(progress) - 1) : Leq(progress[i], progress[i + 1])
        /\ \A i \in 1..Len(progress) :
              Leq(<<1, 1>>, progress[i]) =>
                  /\ terminalAt > 0 /\ last \in {"completed", "failed"}
                  /\ pc = "done"
                  /\ i = Len(progress)

C14_Witness ==
    /\ exit = "completed" /\ gets = 3 /\ Len(progress) = 6
    /\ progress[5] = <<60 + 16, 600>> /\ progress[6] = <<1, 1>>

\* C15: every call that does not end in success returns a message that is
\* not empty together with no video and empty code.
C15_FailuresCarryMessage ==
    (fn = "generate_animation" /\ pc = "done") =>
        /\ exit \in {"validation", "submit_exception", "submit_error",
                     "not_accepted", "no_job_id", "completed", "failed",
                     "timeout", "poll_exception", "poll_error"}
        /\ exit # "completed" =>
              ret.video = None /\ ret.code = "" /\ ret.msg # ""

C15_Witness ==
    /\ pc = "done" /\ exit = "poll_error" /\ gets = 2
    /\ ret = [video |-> None, code |-> "", msg |-> "Unexpected error: Interrupted"]

\* C16: when a poll answers failed the returned message is "Error: ", the
\* remote error (or "Generation failed" when there is none), a newline and
\* the remote details (nothing when there are none).
C16_RemoteFailureMessage ==
    terminalStatus = "failed" =>
        /\ exit = "failed"
        /\ ret.msg = "Error: "
                     \o (IF "error" \in DOMAIN terminalBody
                         THEN terminalBody["error"] ELSE "Generation failed")
                     \o "\n"
                     \o (IF "details" \in DOMAIN terminalBody
                         THEN terminalBody["details"] ELSE "")

C16_Witness ==
    /\ terminalStatus = "failed"
    /\ DOMAIN terminalBody = {"status", "details"}
    /\ ret.msg = "Error: Generation failed\nLaTeX missing"

\* the entry of a metadata field in the success message
Entry(label, key) ==
    IF key \in DOMAIN terminalBody /\ terminalBody[key] # ""
    THEN " | " \o label \o ": " \o terminalBody[key]
    ELSE ""

\* C17: the success message holds one entry for each of skill, style and
\* intent that the payload carries with a value that is not empty, in that
\* order and joined by " | ", and none for a field that is absent; no subset
\* of absent fields is an error.
C17_SuccessMessageEntries ==
    terminalStatus = "completed" =>
        /\ exit = "completed"
        /\ ret.msg = "Animation generated successfully!"
                     \o Entry("Skill", "skill") \o Entry("Style", "style")
                     \o Entry("Intent", "intent")

C17_Witness ==
    /\ terminalStatus = "completed"
    /\ DOMAIN terminalBody = {"status", "video_url", "code", "skill", "style"}
    /\ ret.msg = "Animation generated successfully! | Skill: math | Style: neon"

\* C18: a transport exception raised by the POST ends the call with
\* "Connection error: " and the exception's text, no video, no code and no
\* status query.
C18_SubmitExceptionIsFailure ==
    post.kind = "exception" =>
        /\ pc = "done" /\ exit = "submit_exception" /\ gets = 0
        /\ Len(posted) = 1
        /\ ret = [video |-> None, code |-> "",
                  msg |-> "Connection error: " \o post.msg]

C18_Witness ==
    /\ post.kind = "exception" /\ post.msg = "Read timed out"
    /\ pc = "done" /\ ret.msg = "Connection error: Read timed out"

\* C19: a call always ends, whatever the service answers or raises; it makes
\* at most one POST and at most max_attempts status queries, and none after
\* a terminal status has been read.
C19_AlwaysTerminates ==
    /\ <>(pc = "done" \/ p_pc = "done")
    /\ [](/\ Len(posted) <= 1
          /\ gets <= max_attempts
          /\ p_gets <= p_max_attempts
          /\ terminalAt > 0 => pc = "done" /\ gets = terminalAt
          /\ p_terminalAt > 0 => p_pc = "done" /\ p_gets = p_terminalAt)

C19_Witness ==
    /\ pc = "done" /\ exit = "timeout" /\ quality = "high"
    /\ gets = 120 /\ Len(posted) = 1

\* C20: in poll_job_status every attempt uses up one unit of the budget,
\* whether its query answered a status that is not terminal or raised: the
\* number of status queries never exceeds max_attempts.
C20_PjAttemptsWithinBudget ==
    fn = "poll_job_status" =>
        /\ p_gets <= p_max_attempts
        /\ p_raised <= p_gets
        /\ p_pc = "poll" => p_attempt = p_gets
        /\ p_pc = "sleep" => p_attempt = p_gets - 1
        /\ p_exit = "timeout" => p_gets = p_max_attempts

C20_Witness ==
    /\ p_exit = "timeout" /\ p_max_attempts = 4 /\ p_gets = 4
    /\ p_raised = 2

\* C21: an answer whose status is neither completed nor failed, an answer
\* without a status field included, never ends the loop: the loop sleeps the
\* fixed interval and goes on to the next attempt, and the answer has used
\* up one attempt.
C21_NonTerminalStatusGoesOn ==
    /\ (fn = "generate_animation" /\ last \in {"pending", "other", "missing"}) =>
          /\ exit \in {"none", "timeout"}
          /\ terminalAt = 0
          /\ pc = "sleep" => attempt = gets - 1 /\ sleeps = gets - 1
          /\ pc = "poll" => attempt = gets /\ sleeps = gets
          /\ pc = "done" => attempt = max_attempts /\ gets = max_attempts
          /\ slept = 2 * sleeps
    /\ (fn = "poll_job_status" /\ p_last \in {"pending", "other", "missing"}) =>
          /\ p_exit \in {"none", "timeout"}
          /\ p_terminalAt = 0
          /\ p_pc = "sleep" => p_attempt = p_gets - 1 /\ p_sleeps = p_gets - 1
          /\ p_pc = "poll" => p_attempt = p_gets /\ p_sleeps = p_gets
          /\ p_pc = "done" => p_attempt = p_max_attempts /\ p_gets = p_max_attempts
          /\ p_slept = p_delay * p_sleeps

C21_Witness ==
    /\ fn = "generate_animation" /\ last = "missing"
    /\ pc = "poll" /\ gets = 2 /\ attempt = 2 /\ slept = 4

\* the polling progress values: the entries after the two of the submission,
\* without the final 1.0 of a completed job
PollingEntries ==
    {i \in 3..Len(progress) : ~(exit = "completed" /\ i = Len(progress))}

\* C22: every progress value reported while polling equals
\* 0.1 + 0.8 * attempt / max_attempts for the zero-based attempt, so it is at
\* least 0.1 and strictly below 0.9, for the budgets 60 and 120.
C22_PollingProgressInRange ==
    Polling =>
        /\ max_attempts \in {DefaultAttempts, HighQualityAttempts}
        /\ \A i \in PollingEntries :
              LET p == progress[i]
                  a == i - 3
              IN  /\ a \in 0..(max_attempts - 1)
                  /\ p[1] * 10 * max_attempts = (max_attempts + 8 * a) * p[2]
                  /\ p[2] > 0
                  /\ p[1] * 10 >= p[2]
                  /\ p[1] * 10 < 9 * p[2]

C22_Witness ==
    /\ Polling /\ max_attempts = HighQualityAttempts /\ exit = "timeout"
    /\ Len(progress) = HighQualityAttempts + 2
    /\ progress[Len(progress)] = <<1072, 1200>>

\* c is p without its leading and trailing whitespace
IsTrimOf(c, p) ==
    \E i, j \in 1..Len(p) :
        /\ i <= j
        /\ c = SubSeq(p, i, j)
        /\ p[i] \notin Whitespace /\ p[j] \notin Whitespace
        /\ \A k \in 1..Len(p) : (k < i \/ k > j) => p[k] \in Whitespace

\* C23: for a prompt that is not blank the submission request is made, with
\* concept = the prompt without surrounding whitespace and style, quality
\* and useNLU as they were passed in; nothing but the non-emptiness check
\* stops the request.
C23_RequestBodyFaithful ==
    (fn = "generate_animation" /\ ~Blank(prompt)) =>
        /\ exit # "validation"
        /\ pc \notin {"start", "submit"} => Len(posted) = 1
        /\ \A i \in 1..Len(posted) :
              /\ DOMAIN posted[i] = {"concept", "style", "quality", "useNLU"}
              /\ IsTrimOf(posted[i].concept, prompt)
              /\ posted[i].style = style
              /\ posted[i].quality = quality
              /\ posted[i].useNLU = use_nlu

C23_Witness ==
    /\ fn = "generate_animation" /\ prompt = <<11, 97>> /\ quality = "ultra"
    /\ style = "playful" /\ use_nlu = FALSE
    /\ Len(posted) = 1 /\ posted[1].concept = <<97>>
    /\ posted[1].style = "playful"
    /\ posted[1].quality = "ultra" /\ posted[1].useNLU = FALSE

\* C25: a completed answer whose video_url is missing or empty gives the
\* success return with the empty string as its video: no base is put in
\* front of it and it is not None.
C25_EmptyUrlStaysEmpty ==
    (fn = "generate_animation" /\ terminalStatus = "completed"
       /\ Get(terminalBody, "video_url", <<>>) = <<>>) =>
        /\ exit = "completed"
        /\ ret.video.some
        /\ ret.video.val = <<>>
        /\ ret.video # None

C25_Witness ==
    /\ fn = "generate_animation" /\ terminalStatus = "completed"
    /\ "video_url" \notin DOMAIN terminalBody
    /\ exit = "completed" /\ ret.video = Some(<<>>)

\* C24: with the same budget and the same sequence of answers, none of
\* them an exception, poll_job_status and the poll loop of
\* generate_animation make the same number of status queries and end the
\* same way: completed at the same attempt, failed at the same attempt, or
\* timed out.
C24_LoopsAgree ==
    (fn = "both" /\ pc \in {"poll", "sleep", "done"}) =>
        /\ p_max_attempts = max_attempts
        /\ p_pc = pc
        /\ p_gets = gets
        /\ p_attempt = attempt
        /\ p_sleeps = sleeps
        /\ p_exit = exit
        /\ p_terminalAt = terminalAt
        /\ p_terminalStatus = terminalStatus
        /\ pc = "poll" =>
              /\ (ENABLED TimeOut) <=> (ENABLED PjTimeOut)
              /\ \A out \in AnsweredOutcomes :
                    (ENABLED Poll(out)) <=> (ENABLED PjPoll(out))
        /\ pc = "done" => exit \in {"completed", "failed", "timeout"}
        /\ exit = "completed" => p_ret = terminalBody
        /\ exit = "failed" => p_ret = terminalBody

C24_Witness ==
    /\ fn = "both" /\ pc = "done" /\ p_pc = "done"
    /\ exit = "failed" /\ p_exit = "failed"
    /\ gets = 3 /\ p_gets = 3 /\ terminalAt = 3

\* the number of times v occurs in the list
Count(list, v) == Cardinality({k \in 1..Len(list) : list[k] = v})

\* the two lists hold the same values, each as often
SameElements(a, b) ==
    /\ Len(a) = Len(b)
    /\ \A k \in 1..Len(a) : Count(a, a[k]) = Count(b, a[k])

\* C26: bubble_sort_animate swaps values and bars at the same pair of
\* adjacent indices in every swap, so that bars[k] is the bar of values[k]
\* after every step, and when it returns values is the input list in
\* ascending order.
C26_BarsFollowValues ==
    fn = "bubble_sort_animate" =>
        /\ Len(bubble.bars) = Len(bubble.values)
        /\ \A k \in 1..Len(bubble.values) :
              bubble.bars[k].label = bubble.values[k]
        /\ bubble.barsSwap = bubble.valuesSwap
        /\ bubble.swaps > 0 =>
              /\ bubble.valuesSwap[1] \in 0..(bubble.n - 2)
              /\ bubble.valuesSwap[2] = bubble.valuesSwap[1] + 1
        /\ SameElements(bubble.values, bubble.input)
        /\ bubble.pc = "done" =>
              \A k \in 1..(Len(bubble.values) - 1) :
                  bubble.values[k] <= bubble.values[k + 1]

C26_Witness ==
    /\ fn = "bubble_sort_animate" /\ bubble.pc = "done"
    /\ bubble.input = <<3, 1, 2>> /\ bubble.values = <<1, 2, 3>>
    /\ bubble.swaps = 2 /\ bubble.barsSwap = <<1, 2>>
    /\ bubble.bars[3].label = 3

\* the index of the box a pointer is next to lies within the array
PointerInRange(pointer) ==
    \A k \in 1..Len(pointer) : pointer[k] \in 0..(search.n - 1)

C27_SearchInvariant ==
    fn = "binary_search_animate" =>
        /\ search.step > 0 => search.mid \in 0..(search.n - 1)
        /\ PointerInRange(search.left_pointer)
        /\ PointerInRange(search.right_pointer)
        /\ PointerInRange(search.mid_pointer)
        /\ search.step <= search.n
        /\ search.pc = "done" =>
              /\ search.exit = "found" <=>
                    \E k \in 1..Len(search.values) : search.values[k] = search.target
              /\ search.exit = "found" =>
                    search.values[search.mid + 1] = search.target

\* C27: on an ascending array binary_search_animate terminates, it ends
\* through the "Found!" branch, at an index mid with values[mid] == target,
\* exactly when the target occurs in the array, and mid and the boxes the
\* two pointers are moved to, boxes[min(left, n-1)] and boxes[max(right, 0)],
\* lie within 0..n-1 throughout.
C27_BinarySearchCorrect ==
    /\ []C27_SearchInvariant
    /\ <>(fn # "binary_search_animate" \/ search.pc = "done")

C27_Witness ==
    /\ fn = "binary_search_animate" /\ search.pc = "done"
    /\ search.exit = "exhausted" /\ search.n = 3
    /\ search.left = 3 /\ search.left_pointer = <<2>>
    /\ search.step = 2

\* the least number of a set of numbers that is not empty
Least(S) == CHOOSE x \in S : \A y \in S : x <= y

\* the weight of the edge between u and v, Infinity if there is none
WeightBetween(u, v) ==
    LET stored == {k \in DOMAIN dijkstra.edges :
                      EdgeKeys[k] = <<u, v>> \/ EdgeKeys[k] = <<v, u>>}
    IN  IF stored = {} THEN Infinity
        ELSE Least({dijkstra.edges[k] : k \in stored})

\* the least total weight of a walk of at most `hops` edges from start to v
RECURSIVE WalkWeight(_, _)
WalkWeight(v, hops) ==
    IF hops = 0 THEN (IF v = dijkstra.start THEN 0 ELSE Infinity)
    ELSE Least({WalkWeight(v, hops - 1)}
               \cup {Min(Infinity, WalkWeight(u, hops - 1) + WeightBetween(u, v)) :
                        u \in Nodes})

\* the least total weight of a path from start to v, Infinity if there is none
ShortestDistance(v) == WalkWeight(v, Len(NodeNames) - 1)

\* the total weight of the edges along the path, Infinity if two
\* neighbours on it are not joined by an edge
RECURSIVE PathWeight(_)
PathWeight(path) ==
    IF Len(path) <= 1 THEN 0
    ELSE Min(Infinity, WeightBetween(path[1], path[2]) + PathWeight(Tail(path)))

\* C28: on an undirected graph with weights that are not negative, when the
\* main loop of dijkstra_animate has ended distances[v] is the least total
\* weight of a path from start to v for every v that start reaches, no node
\* was processed twice, and for an end that start reaches the rebuilt path
\* begins at start, ends at end and weighs distances[end].
C28_DijkstraCorrect ==
    fn = "dijkstra_animate" =>
        /\ \A v \in Nodes : dijkstra.processed[v] <= 1
        /\ \A v \in Nodes : dijkstra.processed[v] = 1 <=> v \in dijkstra.visited
        /\ dijkstra.pc = "done" =>
              /\ \A v \in Nodes :
                    ShortestDistance(v) < Infinity =>
                        dijkstra.distances[v] = ShortestDistance(v)
              /\ ShortestDistance(dijkstra.end) < Infinity =>
                    /\ dijkstra.path # <<>>
                    /\ dijkstra.path[1] = dijkstra.start
                    /\ dijkstra.path[Len(dijkstra.path)] = dijkstra.end
                    /\ PathWeight(dijkstra.path) = dijkstra.distances[dijkstra.end]
                    /\ PathWeight(dijkstra.path) < Infinity

C28_Witness ==
    /\ fn = "dijkstra_animate" /\ dijkstra.pc = "done"
    /\ dijkstra.start = "A" /\ dijkstra.end = "B"
    /\ DOMAIN dijkstra.edges = {1, 2, 3}
    /\ dijkstra.edges[1] = 2 /\ dijkstra.edges[2] = 0 /\ dijkstra.edges[3] = 1
    /\ dijkstra.path = <<"A", "C", "B">>
    /\ dijkstra.distances["B"] = 1

\* the number of pairs of the list that stand in the wrong order
Inversions(list) ==
    Cardinality({pair \in (1..Len(list)) \X (1..Len(list)) :
                    pair[1] < pair[2] /\ list[pair[1]] > list[pair[2]]})

\* C29: after SortingVisualization.sort on n bars the comparisons counter is
\* n * (n - 1) / 2, the swaps counter is the number of inversions of the
\* initial array, so swaps <= comparisons, and the bars stand in ascending
\* order of their values.
C29_SortCounters ==
    (fn = "sort" /\ sorting.pc = "done") =>
        /\ sorting.n = Len(sorting.initial)
        /\ Len(sorting.bars) = sorting.n
        /\ 2 * sorting.comparisons = sorting.n * (sorting.n - 1)
        /\ sorting.swaps = Inversions(sorting.initial)
        /\ sorting.swaps <= sorting.comparisons
        /\ \A k \in 1..(sorting.n - 1) :
              sorting.bars[k].value <= sorting.bars[k + 1].value

C29_Witness ==
    /\ fn = "sort" /\ sorting.pc = "done"
    /\ sorting.initial = <<2, 1, 1>>
    /\ sorting.comparisons = 3 /\ sorting.swaps = 2
    /\ sorting.bars[3].value = 2

\* the length of the prompt without the white space around it
TrimmedLength(p) ==
    IF Blank(p) THEN 0
    ELSE LET firstAt == CHOOSE i \in 1..Len(p) :
                          /\ p[i] \notin Whitespace
                          /\ \A k \in 1..(i - 1) : p[k] \in Whitespace
             lastAt == CHOOSE i \in 1..Len(p) :
                          /\ p[i] \notin Whitespace
                          /\ \A k \in (i + 1)..Len(p) : p[k] \in Whitespace
         IN  lastAt - firstAt + 1

\* C30: validate_prompt returns (True, "") exactly when the prompt without
\* surrounding white space has at least 10 characters, the prompt as given
\* has at most 2000 and holds no blocked pattern; otherwise it returns False
\* with the message of the first check that fails, in the order empty, too
\* short, too long, blocked pattern.
C30_ValidatePromptVerdict ==
    (fn = "validate_prompt" /\ validation.pc = "done") =>
        LET p == validation.prompt
            res == validation.result
        IN  /\ res.valid <=>
                  /\ TrimmedLength(p) >= MIN_LENGTH
                  /\ Len(p) <= MAX_LENGTH
                  /\ ~Blocked(p)
            /\ res.valid => res.msg = ""
            /\ ~res.valid =>
                  res.msg = IF Blank(p) THEN MSG_EMPTY
                            ELSE IF TrimmedLength(p) < MIN_LENGTH THEN MSG_TOO_SHORT
                            ELSE IF Len(p) > MAX_LENGTH THEN MSG_TOO_LONG
                            ELSE MSG_BLOCKED

C30_Witness ==
    /\ fn = "validate_prompt" /\ validation.pc = "done"
    /\ validation.result.valid
    /\ Len(validation.prompt) = MAX_LENGTH
    /\ validation.prompt[1] \in Whitespace
    /\ TrimmedLength(validation.prompt) = MAX_LENGTH - 1

====
